---- MODULE Spec2Model ----
(***************************************************************************)
(* Analytics aggregation and scoring engine of the companies dashboard     *)
(* (src/app.py), the chart generator (src/2.py) and the console report     *)
(* (src/1.py).                                                             *)
(*                                                                         *)
(* Python floats are modelled as exact rationals [n, d] (d > 0, lowest     *)
(* terms); a numpy division by zero yields NaN = [n |-> 0, d |-> 0] or     *)
(* Inf = [n |-> 1, d |-> 0]; a Python division by zero raises.             *)
(* A Python dict is a function whose DOMAIN is the set of keys present.    *)
(***************************************************************************)
EXTENDS Integers, Sequences, FiniteSets, TLC

\* ---------------------------------------------------------------- bounds
MaxCompanies == 2
MaxUsers == 6
MaxAlertUsers == 22
MaxInstances == 2
MaxChannels == 2
MaxBroadcasts == 8
MaxUsersCount == 500
MaxInstancesCount == 2
MaxBenchCompanies == 4
MaxTypedInstances == 2
MaxScoreUsers == 3
MaxViewCompanies == 2
MaxForecastTotal == 6
MaxRunCompanies == 2
BenchUsers == 10

\* ------------------------------------------------------- exact arithmetic
RECURSIVE GCD(_, _)
GCD(a, b) == IF b = 0 THEN a ELSE GCD(b, a % b)

Abs(x) == IF x < 0 THEN -x ELSE x

NaN == [n |-> 0, d |-> 0]
Inf == [n |-> 1, d |-> 0]

\* the rational n/d in lowest terms for d > 0; NaN or Inf for d = 0, so that
\* arithmetic on a NaN or an Inf yields a NaN or an Inf
R(n, d) ==
    IF d = 0 THEN (IF n = 0 THEN NaN ELSE Inf)
    ELSE LET g == GCD(Abs(n), d)
         IN  [n |-> n \div g, d |-> d \div g]

I(k) == [n |-> k, d |-> 1]

IsFinite(x) == x.d # 0

RAdd(x, y) == R(x.n * y.d + y.n * x.d, x.d * y.d)
RMul(x, y) == R(x.n * y.n, x.d * y.d)
\* x / y for y # 0 (the callers guard or raise on y = 0)
RDiv(x, y) == IF y.n < 0 THEN R(-(x.n * y.d), x.d * (-y.n)) ELSE R(x.n * y.d, x.d * y.n)
RLt(x, y) == x.n * y.d < y.n * x.d
RLe(x, y) == x.n * y.d <= y.n * x.d
RGe(x, y) == RLe(y, x)
RGt(x, y) == RLt(y, x)
RMin(x, y) == IF RLe(x, y) THEN x ELSE y

\* Python round(x, 1) for x >= 0: nearest tenth, ties to even
Round1(x) ==
    LET t == x.n * 10
        q == t \div x.d
        r == t % x.d
        up == \/ 2 * r > x.d
              \/ 2 * r = x.d /\ q % 2 = 1
    IN  R(IF up THEN q + 1 ELSE q, 10)

\* ------------------------------------------------------------ dict access
\* d.get(k, default)
Get(d, k, default) == IF k \in DOMAIN d THEN d[k] ELSE default

\* sum(1 for x in xs if x.get(key, False))
CountActive(xs, key) == Cardinality({i \in 1..Len(xs) : Get(xs[i], key, FALSE)})

\* sum(1 for x in xs if not x.get(key, False))
CountInactive(xs, key) == Cardinality({i \in 1..Len(xs) : ~Get(xs[i], key, FALSE)})

\* ----------------------------------------------------------- entity model
UserTypeNames == <<"Agent", "Admin", "Supervisor", "AI", "Unknown">>

\* a users collection of nu users, the first na active, of k distinct types
MkUsers(nu, na, k) ==
    [i \in 1..nu |-> [isActive |-> i <= na,
                      user_type_name |-> UserTypeNames[((i - 1) % k) + 1]]]

\* an instances collection of ni instances, the first ai active
MkInstances(ni, ai) ==
    [i \in 1..ni |-> [active |-> i <= ai, status |-> "connected"]]

\* a channels collection of nc channels, the first ac active
MkChannels(nc, ac) ==
    [i \in 1..nc |-> [isActive |-> i <= ac, speedMessages_count |-> 0]]

\* a company record as the ingestion step supplies it
MkCompany(name, users, instances, channels, uc, ic, cc, bc) ==
    [name |-> name, isActive |-> TRUE,
     users |-> users, instances |-> instances, channels |-> channels,
     users_count |-> uc, instances_count |-> ic, channels_count |-> cc,
     broadcasts_count |-> bc]

\* the dict d without the key k
Without(d, k) == [x \in DOMAIN d \ {k} |-> d[x]]

VARIABLES
    data,           \* the loaded snapshot: [companies, metadata]
    view_option,    \* the view or entry point that ran last
    selected_company, \* the company filter of the sidebar in that run
    health_scores,  \* app.py Customer Health Score: the records of the loop
    df_health,      \* ... sorted by Health Score, descending
    alerts,         \* app.py Alerts & Anomalies: the alert records
    revenue_data,   \* app.py Revenue Insights: the records of the loop
    df_revenue,     \* ... sorted by Monthly Revenue, descending
    benchmark_data, \* app.py Benchmarking: the records of the loop
    benchmarks,     \* ... the percentile table
    chart,          \* the series a chart function or report computes
    metrics,        \* the summary figures the view that ran last displays
    raised          \* the exception that ended the run, or "none"

vars == <<data, view_option, selected_company, health_scores, df_health, alerts, revenue_data,
          df_revenue, benchmark_data, benchmarks, chart, metrics, raised>>

\* A run of a view or entry point starts from the loaded data alone: what an
\* earlier run computed is gone, so each run leaves unset what it does not compute
\* companies = data.get('companies', [])
Companies == Get(data, "companies", <<>>)

\* company_names, the choices of the company selectbox
CompanyFilter ==
    {"All Companies"} \cup {Get(Companies[i], "name", "Unknown") : i \in 1..Len(Companies)}

NoHealth == health_scores' = <<>> /\ df_health' = <<>>
NoAlerts == alerts' = <<>>
NoRevenue == revenue_data' = <<>> /\ df_revenue' = <<>>
NoBenchmark == benchmark_data' = <<>> /\ benchmarks' = <<>>
NoChart == chart' = <<>>
NoMetrics == metrics' = <<>>

\* -------------------------------------------- app.py: Customer Health Score
UserTypeOf(u) == Get(u, "user_type_name", "Unknown")

\* len(Counter(u.get('user_type_name', 'Unknown') for u in users))
DistinctUserTypes(users) == Cardinality({UserTypeOf(users[i]) : i \in 1..Len(users)})

\* (active / len(xs) * 100) if xs else 0
ActivityRate(active, xs) ==
    IF Len(xs) > 0
    THEN RMul(RDiv(I(active), I(Len(xs))), I(100))
    ELSE I(0)

TypeDiversity(users) == RMul(RDiv(I(DistinctUserTypes(users)), I(4)), I(100))

UsersPerChannel(users, channels) ==
    IF Len(channels) > 0 THEN RDiv(I(Len(users)), I(Len(channels))) ELSE I(0)

BroadcastsPerInstance(broadcasts, instances) ==
    IF Len(instances) > 0 THEN RDiv(I(broadcasts), I(Len(instances))) ELSE I(0)

EngagementScore(user_activity_rate, instance_activity_rate) ==
    RAdd(RMul(user_activity_rate, R(6, 10)), RMul(instance_activity_rate, R(4, 10)))

AdoptionScore(type_diversity, has_broadcasts, has_channels) ==
    RAdd(RAdd(RMul(type_diversity, R(4, 10)), RMul(I(has_broadcasts), R(3, 10))),
         RMul(I(has_channels), R(3, 10)))

\* the growth score without its cap
GrowthPotential_Uncapped(users_per_channel, broadcasts_per_instance) ==
    RAdd(RMul(RDiv(users_per_channel, I(10)), I(50)),
         RMul(RDiv(broadcasts_per_instance, I(5)), I(50)))

GrowthPotential(users_per_channel, broadcasts_per_instance) ==
    RMin(RAdd(RMul(RDiv(users_per_channel, I(10)), I(50)),
              RMul(RDiv(broadcasts_per_instance, I(5)), I(50))),
         I(100))

\* the weighting with the growth score counted against the company
OverallHealth_GrowthPenalised(engagement_score, adoption_score, growth_potential) ==
    RAdd(RAdd(RMul(engagement_score, R(4, 10)), RMul(adoption_score, R(3, 10))),
         RMul(growth_potential, R(-3, 10)))

OverallHealth(engagement_score, adoption_score, growth_potential) ==
    RAdd(RAdd(RMul(engagement_score, R(4, 10)), RMul(adoption_score, R(3, 10))),
         RMul(growth_potential, R(3, 10)))

\* the tiers with exclusive lower bounds
HealthTier_Exclusive(overall_health) ==
    IF RGt(overall_health, I(80))
    THEN [Status |-> "Healthy", Risk_Level |-> "Low",
          Recommendation |-> "Explore upsell opportunities"]
    ELSE IF RGt(overall_health, I(60))
    THEN [Status |-> "Stable", Risk_Level |-> "Medium",
          Recommendation |-> "Monitor engagement trends"]
    ELSE IF RGt(overall_health, I(40))
    THEN [Status |-> "At Risk", Risk_Level |-> "High",
          Recommendation |-> "Increase engagement, provide training"]
    ELSE [Status |-> "Critical", Risk_Level |-> "Critical",
          Recommendation |-> "Immediate intervention required"]

\* the if/elif chain on overall_health
HealthTier(overall_health) ==
    IF RGe(overall_health, I(80))
    THEN [Status |-> "Healthy", Risk_Level |-> "Low",
          Recommendation |-> "Explore upsell opportunities"]
    ELSE IF RGe(overall_health, I(60))
    THEN [Status |-> "Stable", Risk_Level |-> "Medium",
          Recommendation |-> "Monitor engagement trends"]
    ELSE IF RGe(overall_health, I(40))
    THEN [Status |-> "At Risk", Risk_Level |-> "High",
          Recommendation |-> "Increase engagement, provide training"]
    ELSE [Status |-> "Critical", Risk_Level |-> "Critical",
          Recommendation |-> "Immediate intervention required"]

\* the body of the loop over the companies; overall_health is the unrounded
\* local the tier is decided on, kept next to the rounded record fields
HealthRecord(company) ==
    LET users == Get(company, "users", <<>>)
        instances == Get(company, "instances", <<>>)
        channels == Get(company, "channels", <<>>)
        broadcasts == Get(company, "broadcasts_count", 0)
        user_activity_rate == ActivityRate(CountActive(users, "isActive"), users)
        instance_activity_rate == ActivityRate(CountActive(instances, "active"), instances)
        engagement_score == EngagementScore(user_activity_rate, instance_activity_rate)
        type_diversity == TypeDiversity(users)
        has_broadcasts == IF broadcasts > 0 THEN 100 ELSE 0
        has_channels == IF Len(channels) > 0 THEN 100 ELSE 0
        adoption_score == AdoptionScore(type_diversity, has_broadcasts, has_channels)
        users_per_channel == UsersPerChannel(users, channels)
        broadcasts_per_instance == BroadcastsPerInstance(broadcasts, instances)
        growth_potential == GrowthPotential(users_per_channel, broadcasts_per_instance)
        overall_health == OverallHealth(engagement_score, adoption_score, growth_potential)
        tier == HealthTier(overall_health)
    IN  [Company |-> Get(company, "name", "Unknown"),
         Health_Score |-> Round1(overall_health),
         Status |-> tier.Status,
         Risk_Level |-> tier.Risk_Level,
         Engagement_Score |-> Round1(engagement_score),
         Adoption_Score |-> Round1(adoption_score),
         Growth_Potential |-> Round1(growth_potential),
         Active_Users_pct |-> Round1(user_activity_rate),
         Active_Instances_pct |-> Round1(instance_activity_rate),
         Total_Users |-> Len(users),
         Total_Instances |-> Len(instances),
         Broadcasts |-> broadcasts,
         Recommendation |-> tier.Recommendation,
         overall_health |-> overall_health,
         engagement_score |-> engagement_score,
         adoption_score |-> adoption_score,
         growth_potential |-> growth_potential,
         type_diversity |-> type_diversity]

\* DataFrame.sort_values(key, ascending=False): the rows by descending key
\* (keys[i] is the key of rows[i]), ties in input order
SortDesc(rows, keys) ==
    LET n == Len(rows)
        Rank(i) == 1 + Cardinality({j \in 1..n : \/ RGt(keys[j], keys[i])
                                                 \/ keys[j] = keys[i] /\ j < i})
    IN  [p \in 1..n |-> rows[CHOOSE i \in 1..n : Rank(i) = p]]

HealthScoreOf(row) == row.Health_Score
IsHealthy(row) == RGe(row.Health_Score, I(80))
IsAtRisk(row) == RGe(row.Health_Score, I(40)) /\ RLt(row.Health_Score, I(60))
IsCritical(row) == RLt(row.Health_Score, I(40))

\* the Healthy count added to the count the last run left in the metrics
HealthyCount_Running(df) ==
    Cardinality({i \in 1..Len(df) : IsHealthy(df[i])}) + Get(metrics, "healthy_count", 0)

\* len(df_health[df_health['Health Score'] >= 80]) and the two other counts
HealthyCount(df) == Cardinality({i \in 1..Len(df) : IsHealthy(df[i])})
AtRiskCount(df) == Cardinality({i \in 1..Len(df) : IsAtRisk(df[i])})
CriticalCount(df) == Cardinality({i \in 1..Len(df) : IsCritical(df[i])})

\* count / len(df) * 100
PctOf(count, df) == RMul(RDiv(I(count), I(Len(df))), I(100))

\* the whole view: the loop, the sort and the Health Overview figures
CustomerHealthScore ==
    /\ view_option' = "Customer Health Score"
    /\ selected_company' = "All Companies"
    /\ health_scores' = [i \in 1..Len(Companies) |-> HealthRecord(Companies[i])]
    /\ IF Len(health_scores') = 0
       THEN \* sort_values('Health Score') on a frame without columns
            /\ raised' = "KeyError"
            /\ df_health' = <<>>
            /\ metrics' = <<>>
       ELSE /\ raised' = "none"
            /\ df_health' = SortDesc(health_scores',
                                    [i \in 1..Len(health_scores') |-> HealthScoreOf(health_scores'[i])])
            /\ metrics' = [healthy_count |-> HealthyCount(df_health'),
                           at_risk_count |-> AtRiskCount(df_health'),
                           critical_count |-> CriticalCount(df_health'),
                           healthy_pct |-> PctOf(HealthyCount(df_health'), df_health'),
                           at_risk_pct |-> PctOf(AtRiskCount(df_health'), df_health'),
                           critical_pct |-> PctOf(CriticalCount(df_health'), df_health')]
    /\ NoAlerts /\ NoRevenue /\ NoBenchmark /\ NoChart
    /\ UNCHANGED data

\* ----------------------------------------------- app.py: Alerts & Anomalies

\* one alert record, as the list the rule appends
Alert(company_name, type, category, severity, metric, action) ==
    <<[Company |-> company_name, Alert_Type |-> type, Category |-> category,
       Severity |-> severity, Metric |-> metric, Action |-> action]>>

\* Alert 1: low user activation (if activation_rate < 50 ... elif activation_rate < 70)
ActivationAlert(company_name, users) ==
    LET active_users == CountActive(users, "isActive")
        activation_rate == RMul(RDiv(I(active_users), I(Len(users))), I(100))
    IN  IF Len(users) > 0
        THEN IF RLt(activation_rate, I(50))
             THEN Alert(company_name, "Critical", "User Activation", "High",
                        <<active_users, Len(users)>>,
                        "Contact customer success team immediately")
             ELSE IF RLt(activation_rate, I(70))
             THEN Alert(company_name, "Warning", "User Activation", "Medium",
                        <<active_users, Len(users)>>,
                        "Schedule training session")
             ELSE <<>>
        ELSE <<>>

\* Alert 2: zero broadcasts
ZeroBroadcastsAlert(company_name, instances, broadcasts) ==
    IF Len(instances) > 0 /\ broadcasts = 0
    THEN Alert(company_name, "Warning", "Usage", "Medium", <<0>>,
               "Check if customer needs help setting up campaigns")
    ELSE <<>>

\* Alert 3: inactive instances
InactiveInstancesAlert(company_name, instances) ==
    LET inactive_instances == CountInactive(instances, "active")
    IN  IF Len(instances) > 0
        THEN IF RGt(RDiv(I(inactive_instances), I(Len(instances))), R(5, 10))
             THEN Alert(company_name, "Info", "Resource Optimization", "Low",
                        <<inactive_instances, Len(instances)>>,
                        "Consider downsizing or reactivating instances")
             ELSE <<>>
        ELSE <<>>

\* the rule with users >= 10
NoChannelsAlert_AtTen(company_name, users, channels) ==
    IF Len(users) >= 10 /\ Len(channels) = 0
    THEN Alert(company_name, "Critical", "Setup", "High", <<0>>,
               "Urgent: Complete onboarding process")
    ELSE <<>>

\* Alert 4: no channels
NoChannelsAlert(company_name, users, channels) ==
    IF Len(users) > 10 /\ Len(channels) = 0
    THEN Alert(company_name, "Critical", "Setup", "High", <<0>>,
               "Urgent: Complete onboarding process")
    ELSE <<>>

\* Alert 5: unusual user-to-instance ratio
UserInstanceRatioAlert(company_name, users, instances) ==
    LET ratio == RDiv(I(Len(users)), I(Len(instances)))
    IN  IF Len(instances) > 0
        THEN IF RGt(ratio, I(20))
             THEN Alert(company_name, "Info", "Capacity", "Low",
                        <<Len(users), Len(instances)>>,
                        "May need additional instances for optimal performance")
             ELSE <<>>
        ELSE <<>>

\* the rule with at most one user
NoUsersAlert_AtMostOne(company_name, users) ==
    IF Len(users) <= 1
    THEN Alert(company_name, "Critical", "Churn Risk", "Critical", <<0>>,
               "Potential churn - reach out immediately")
    ELSE <<>>

\* Alert 6: inactive company (no users)
NoUsersAlert(company_name, users) ==
    IF Len(users) = 0
    THEN Alert(company_name, "Critical", "Churn Risk", "Critical", <<0>>,
               "Potential churn - reach out immediately")
    ELSE <<>>

\* the body of the loop over the companies: the alerts of one company, in
\* the order the rules are evaluated
CompanyAlerts(company) ==
    LET company_name == Get(company, "name", "Unknown")
        users == Get(company, "users", <<>>)
        instances == Get(company, "instances", <<>>)
        channels == Get(company, "channels", <<>>)
        broadcasts == Get(company, "broadcasts_count", 0)
    IN  ActivationAlert(company_name, users)
        \o ZeroBroadcastsAlert(company_name, instances, broadcasts)
        \o InactiveInstancesAlert(company_name, instances)
        \o NoChannelsAlert(company_name, users, channels)
        \o UserInstanceRatioAlert(company_name, users, instances)
        \o NoUsersAlert(company_name, users)

\* the concatenation of the sequences of a sequence
RECURSIVE Flatten(_)
Flatten(xss) == IF Len(xss) = 0 THEN <<>> ELSE Head(xss) \o Flatten(Tail(xss))

WithSeverity(found, sev) == Cardinality({i \in 1..Len(found) : found[i].Severity = sev})

\* the whole view: the loop and the Alert Summary counts
AlertsAndAnomalies ==
    /\ view_option' = "Alerts & Anomalies"
    /\ selected_company' = "All Companies"
    /\ raised' = "none"
    /\ alerts' = Flatten([i \in 1..Len(Companies) |-> CompanyAlerts(Companies[i])])
    /\ IF Len(alerts') > 0
       THEN metrics' = [critical_count |-> WithSeverity(alerts', "Critical"),
                        high_count |-> WithSeverity(alerts', "High"),
                        medium_count |-> WithSeverity(alerts', "Medium"),
                        low_count |-> WithSeverity(alerts', "Low")]
       ELSE metrics' = <<>>
    /\ NoHealth /\ NoRevenue /\ NoBenchmark /\ NoChart
    /\ UNCHANGED data

\* ------------------------------------------------- app.py: Revenue Insights
PRICE_PER_USER == 10
PRICE_PER_INSTANCE == 50
\* 0.01
PRICE_PER_BROADCAST == R(1, 100)

\* the tiers with exclusive lower bounds
RevenueTier_Exclusive(total_revenue) ==
    IF RGt(total_revenue, I(5000)) THEN "Enterprise"
    ELSE IF RGt(total_revenue, I(1000)) THEN "Professional"
    ELSE IF RGt(total_revenue, I(100)) THEN "Growth"
    ELSE "Starter"

\* the if/elif chain on total_revenue
RevenueTier(total_revenue) ==
    IF RGe(total_revenue, I(5000)) THEN "Enterprise"
    ELSE IF RGe(total_revenue, I(1000)) THEN "Professional"
    ELSE IF RGe(total_revenue, I(100)) THEN "Growth"
    ELSE "Starter"

\* the users billed, taken from the collection instead of the counter
BilledUsers_FromCollection(company) == Len(Get(company, "users", <<>>))

\* users_count = company.get('users_count', 0)
BilledUsers(company) == Get(company, "users_count", 0)

\* the body of the loop over the companies
RevenueRecord(company) ==
    LET users_count == BilledUsers(company)
        instances_count == Get(company, "instances_count", 0)
        broadcasts_count == Get(company, "broadcasts_count", 0)
        user_revenue == I(users_count * PRICE_PER_USER)
        instance_revenue == I(instances_count * PRICE_PER_INSTANCE)
        broadcast_revenue == RMul(I(broadcasts_count), PRICE_PER_BROADCAST)
        total_revenue == RAdd(RAdd(user_revenue, instance_revenue), broadcast_revenue)
    IN  [Company |-> Get(company, "name", "Unknown"),
         Monthly_Revenue |-> total_revenue,
         Annual_Revenue |-> RMul(total_revenue, I(12)),
         User_Revenue |-> user_revenue,
         Instance_Revenue |-> instance_revenue,
         Broadcast_Revenue |-> broadcast_revenue,
         Users |-> users_count,
         Instances |-> instances_count,
         Broadcasts |-> broadcasts_count,
         Tier |-> RevenueTier(total_revenue),
         ARPU |-> IF users_count > 0 THEN RDiv(total_revenue, I(users_count)) ELSE I(0)]

\* Series.sum()
RECURSIVE RSum(_)
RSum(xs) == IF Len(xs) = 0 THEN I(0) ELSE RAdd(Head(xs), RSum(Tail(xs)))

\* a / b on numpy floats: no exception, NaN or Inf when b is 0
NpDiv(a, b) ==
    IF b.n = 0 THEN (IF a.n = 0 THEN NaN ELSE Inf) ELSE RDiv(a, b)

MonthlyRevenueOf(row) == row.Monthly_Revenue
UserRevenueOf(row) == row.User_Revenue
InstanceRevenueOf(row) == row.Instance_Revenue
BroadcastRevenueOf(row) == row.Broadcast_Revenue
ARPUOf(row) == row.ARPU

\* the Percentage column of revenue_sources
RevenueSharePct(source_rev, total_mrr) == RMul(NpDiv(source_rev, total_mrr), I(100))

\* the summary figures and the revenue_sources percentages of a sorted frame
RevenueSummary(df) ==
    LET total_mrr == RSum([i \in 1..Len(df) |-> MonthlyRevenueOf(df[i])])
        total_user_rev == RSum([i \in 1..Len(df) |-> UserRevenueOf(df[i])])
        total_instance_rev == RSum([i \in 1..Len(df) |-> InstanceRevenueOf(df[i])])
        total_broadcast_rev == RSum([i \in 1..Len(df) |-> BroadcastRevenueOf(df[i])])
    IN  [total_mrr |-> total_mrr,
         total_arr |-> RMul(total_mrr, I(12)),
         avg_revenue |-> RDiv(total_mrr, I(Len(df))),
         avg_arpu |-> RDiv(RSum([i \in 1..Len(df) |-> ARPUOf(df[i])]), I(Len(df))),
         user_pct |-> RevenueSharePct(total_user_rev, total_mrr),
         instance_pct |-> RevenueSharePct(total_instance_rev, total_mrr),
         broadcast_pct |-> RevenueSharePct(total_broadcast_rev, total_mrr)]

\* the whole view: the loop, the sort, the summary and the revenue composition
RevenueInsights ==
    /\ view_option' = "Revenue Insights"
    /\ selected_company' = "All Companies"
    /\ revenue_data' = [i \in 1..Len(Companies) |-> RevenueRecord(Companies[i])]
    /\ IF Len(revenue_data') = 0
       THEN \* sort_values('Monthly Revenue') on a frame without columns
            /\ raised' = "KeyError"
            /\ df_revenue' = <<>>
            /\ metrics' = <<>>
       ELSE /\ raised' = "none"
            /\ df_revenue' = SortDesc(revenue_data',
                                     [i \in 1..Len(revenue_data') |-> MonthlyRevenueOf(revenue_data'[i])])
            /\ metrics' = RevenueSummary(df_revenue')
    /\ NoHealth /\ NoAlerts /\ NoBenchmark /\ NoChart
    /\ UNCHANGED data

\* ------------------------------------------------------- app.py: Debug View
UsersLen(company) == Len(Get(company, "users", <<>>))

RECURSIVE ISum(_)
ISum(xs) == IF Len(xs) = 0 THEN 0 ELSE Head(xs) + ISum(Tail(xs))

\* the whole view: the per-company user counts and the match rate
DebugView ==
    LET metadata == Get(data, "metadata", <<>>)
        total_users_in_companies ==
            ISum([i \in 1..Len(Companies) |-> UsersLen(Companies[i])])
        counts == [total_users_in_companies |-> total_users_in_companies,
                   missing_users |-> Get(metadata, "total_users", 0) - total_users_in_companies]
    IN  /\ view_option' = "Debug View"
        /\ selected_company' = "All Companies"
        /\ IF Get(metadata, "total_users", 1) = 0
           THEN /\ raised' = "ZeroDivisionError"
                /\ metrics' = counts
           ELSE /\ raised' = "none"
                /\ metrics' = counts @@
                     [match_rate |-> RMul(RDiv(I(total_users_in_companies),
                                               I(Get(metadata, "total_users", 1))), I(100))]
        /\ NoHealth /\ NoAlerts /\ NoRevenue /\ NoBenchmark /\ NoChart
        /\ UNCHANGED data

\* ------------------------------------------- app.py: Business Intelligence
\* sum(1 for u in all_users_list if u.get('isActive', False)), the list being
\* the users of every company one after the other
ActiveUsersOfAll(companies) ==
    ISum([i \in 1..Len(companies) |->
             CountActive(Get(companies[i], "users", <<>>), "isActive")])

ActiveInstancesOfAll(companies) ==
    ISum([i \in 1..Len(companies) |->
             CountActive(Get(companies[i], "instances", <<>>), "active")])

\* (active / total * 100) if total > 0 else 0, the total read from the metadata
RateOfTotal(active, total) ==
    IF total > 0 THEN RMul(RDiv(I(active), I(total)), I(100)) ELSE I(0)

\* the KPIs of the view
BusinessKPIs(metadata, companies) ==
    LET total_users == Get(metadata, "total_users", 0)
        total_instances == Get(metadata, "total_instances", 0)
        active_users == ActiveUsersOfAll(companies)
        active_instances == ActiveInstancesOfAll(companies)
        active_user_rate == RateOfTotal(active_users, total_users)
        active_instance_rate == RateOfTotal(active_instances, total_instances)
    IN  [total_users |-> total_users,
         total_instances |-> total_instances,
         active_users |-> active_users,
         active_instances |-> active_instances,
         active_user_rate |-> active_user_rate,
         active_instance_rate |-> active_instance_rate,
         efficiency_score |-> RAdd(RMul(active_user_rate, R(4, 10)),
                                   RMul(active_instance_rate, R(6, 10)))]

\* the if/elif chain on overall_score
ScoreTier(overall_score) ==
    IF RGe(overall_score, I(80)) THEN [Health_Status |-> "Excellent", Churn_Risk |-> "Low"]
    ELSE IF RGe(overall_score, I(60)) THEN [Health_Status |-> "Good", Churn_Risk |-> "Medium"]
    ELSE IF RGe(overall_score, I(40))
    THEN [Health_Status |-> "Fair", Churn_Risk |-> "Medium-High"]
    ELSE [Health_Status |-> "Poor", Churn_Risk |-> "High"]

\* the weighting without the cap of the resource usage
OverallScore_Uncapped(user_activity, instance_activity, resource_usage) ==
    RAdd(RAdd(RMul(user_activity, R(3, 10)), RMul(instance_activity, R(3, 10))),
         RMul(resource_usage, R(4, 10)))

\* user_activity * 0.3 + instance_activity * 0.3 + min(resource_usage, 100) * 0.4
OverallScore(user_activity, instance_activity, resource_usage) ==
    RAdd(RAdd(RMul(user_activity, R(3, 10)), RMul(instance_activity, R(3, 10))),
         RMul(RMin(resource_usage, I(100)), R(4, 10)))

\* the body of the scorecard loop
ScoreRecord(company) ==
    LET users == Get(company, "users", <<>>)
        instances == Get(company, "instances", <<>>)
        user_activity == ActivityRate(CountActive(users, "isActive"), users)
        instance_activity == ActivityRate(CountActive(instances, "active"), instances)
        resource_usage ==
            RDiv(I(Len(users) + Len(instances) + Get(company, "broadcasts_count", 0)), I(3))
        overall_score == OverallScore(user_activity, instance_activity, resource_usage)
        tier == ScoreTier(overall_score)
    IN  [Company |-> Get(company, "name", "Unknown"),
         Overall_Score |-> Round1(overall_score),
         Health_Status |-> tier.Health_Status,
         User_Activity_pct |-> Round1(user_activity),
         Instance_Activity_pct |-> Round1(instance_activity),
         Total_Users |-> Len(users),
         Total_Instances |-> Len(instances),
         Broadcasts |-> Get(company, "broadcasts_count", 0),
         Churn_Risk |-> tier.Churn_Risk,
         overall_score |-> overall_score]

OverallScoreOf(row) == row.Overall_Score

\* the whole view up to the scorecard: the KPIs, the loop and the sort
BusinessIntelligence ==
    LET company_scores == [i \in 1..Len(Companies) |-> ScoreRecord(Companies[i])]
    IN  /\ view_option' = "Business Intelligence"
        /\ selected_company' = "All Companies"
        /\ metrics' = BusinessKPIs(Get(data, "metadata", <<>>), Companies)
        /\ IF Len(company_scores) = 0
           THEN \* sort_values('Overall Score') on a frame without columns
                /\ raised' = "KeyError"
                /\ chart' = [company_scores |-> <<>>]
           ELSE /\ raised' = "none"
                /\ chart' = [company_scores |-> company_scores,
                             df_scores |->
                                 SortDesc(company_scores,
                                          [i \in 1..Len(company_scores) |->
                                              OverallScoreOf(company_scores[i])])]
        /\ NoHealth /\ NoAlerts /\ NoRevenue /\ NoBenchmark
        /\ UNCHANGED data

\* ----------------------------------------------------- app.py: Benchmarking
BenchmarkMetrics == {"User_Activation_pct", "Instance_Utilization_pct", "Broadcasts_User"}
SelectableMetrics == {"User_Activation_pct", "Instance_Utilization_pct",
                      "Broadcasts_User", "Broadcasts_Instance"}

BroadcastsPerUser(broadcasts, users) ==
    IF Len(users) > 0 THEN RDiv(I(broadcasts), I(Len(users))) ELSE I(0)

\* the body of the loop over the companies
BenchmarkRecord(company) ==
    LET users == Get(company, "users", <<>>)
        instances == Get(company, "instances", <<>>)
        channels == Get(company, "channels", <<>>)
        broadcasts == Get(company, "broadcasts_count", 0)
        user_activation == ActivityRate(CountActive(users, "isActive"), users)
        instance_utilization == ActivityRate(CountActive(instances, "active"), instances)
        users_per_channel == UsersPerChannel(users, channels)
        broadcasts_per_user == BroadcastsPerUser(broadcasts, users)
        broadcasts_per_instance == BroadcastsPerInstance(broadcasts, instances)
    IN  [Company |-> Get(company, "name", "Unknown"),
         User_Activation_pct |-> Round1(user_activation),
         Instance_Utilization_pct |-> Round1(instance_utilization),
         Users_Channel |-> Round1(users_per_channel),
         Broadcasts_User |-> Round1(broadcasts_per_user),
         Broadcasts_Instance |-> Round1(broadcasts_per_instance),
         Total_Users |-> Len(users),
         Total_Instances |-> Len(instances),
         Total_Broadcasts |-> broadcasts]

\* the values in ascending order
RECURSIVE SortAsc(_)
SortAsc(xs) ==
    IF Len(xs) = 0 THEN <<>>
    ELSE LET least == CHOOSE i \in 1..Len(xs) : \A j \in 1..Len(xs) : RLe(xs[i], xs[j])
             rest == SubSeq(xs, 1, least - 1) \o SubSeq(xs, least + 1, Len(xs))
         IN  <<xs[least]>> \o SortAsc(rest)

\* the quantile as the value at the lower rank, without interpolation
Quantile_LowerRank(xs, qn, qd) == SortAsc(xs)[(((Len(xs) - 1) * qn) \div qd) + 1]

\* Series.quantile(q) for q = qn/qd on a non-empty series: linear
\* interpolation between the two closest ranks
Quantile(xs, qn, qd) ==
    LET sorted == SortAsc(xs)
        h == (Len(xs) - 1) * qn
        lo == h \div qd
        frac == R(h % qd, qd)
        low == sorted[lo + 1]
        high == IF lo + 2 <= Len(xs) THEN sorted[lo + 2] ELSE low
    IN  RAdd(low, RMul(frac, RAdd(high, RMul(I(-1), low))))

Column(rows, name) ==
    LET col[i \in 0..Len(rows)] == IF i = 0 THEN <<>> ELSE Append(col[i - 1], rows[i][name])
    IN  col[Len(rows)]

\* the benchmarks dict: the percentiles of the benchmarked metrics
BenchmarkTable(rows) ==
    [m \in BenchmarkMetrics |->
        [Top_25 |-> Quantile(Column(rows, m), 3, 4),
         Median |-> Quantile(Column(rows, m), 1, 2),
         Bottom_25 |-> Quantile(Column(rows, m), 1, 4)]]

\* the whole view: the loop, the percentile table and the comparison chart
\* of the metric chosen in the selectbox
Benchmarking(metric_to_compare) ==
    /\ view_option' = "Benchmarking"
    /\ selected_company' \in CompanyFilter
    /\ benchmark_data' = [i \in 1..Len(Companies) |-> BenchmarkRecord(Companies[i])]
    /\ IF Len(benchmark_data') = 0
       THEN \* df_benchmark['User Activation %'] on a frame without columns
            /\ raised' = "KeyError"
            /\ benchmarks' = <<>>
            /\ chart' = <<>>
       ELSE /\ raised' = "none"
            /\ benchmarks' = BenchmarkTable(benchmark_data')
            /\ chart' = [metric |-> metric_to_compare,
                         rows |-> SortDesc(benchmark_data',
                                           Column(benchmark_data', metric_to_compare)),
                         lines |-> IF metric_to_compare \in DOMAIN benchmarks'
                                   THEN <<benchmarks'[metric_to_compare].Top_25,
                                          benchmarks'[metric_to_compare].Median>>
                                   ELSE <<>>]
    /\ NoHealth /\ NoAlerts /\ NoRevenue /\ NoMetrics
    /\ UNCHANGED data

\* ------------------------------------- app.py: Executive Summary, heatmap

\* xs[:k]
Prefix(xs, k) == SubSeq(xs, 1, IF Len(xs) < k THEN Len(xs) ELSE k)

HeatmapRecord(company) ==
    LET users == Get(company, "users", <<>>)
        instances == Get(company, "instances", <<>>)
        channels == Get(company, "channels", <<>>)
    IN  [Company |-> Get(company, "name", "Unknown"),
         Users_Active_pct |-> ActivityRate(CountActive(users, "isActive"), users),
         Instances_Active_pct |-> ActivityRate(CountActive(instances, "active"), instances),
         Channels_Active_pct |-> ActivityRate(CountActive(channels, "isActive"), channels)]

\* the activity heatmap of the view (the first 20 companies)
ExecutiveSummary ==
    /\ view_option' = "Executive Summary"
    /\ selected_company' = "All Companies"
    /\ raised' = "none"
    /\ chart' = [heatmap_data |->
                    [i \in 1..Len(Prefix(Companies, 20)) |-> HeatmapRecord(Companies[i])]]
    /\ NoHealth /\ NoAlerts /\ NoRevenue /\ NoBenchmark /\ NoMetrics
    /\ UNCHANGED data

\* ------------------------------------------------ app.py: Cross Analysis
\* the company filter of the sidebar
FilteredCompanies(companies, selected) ==
    IF selected # "All Companies"
    THEN SelectSeq(companies, LAMBDA c : "name" \in DOMAIN c /\ c.name = selected)
    ELSE companies

AnalysisRecord(company) ==
    LET users == Get(company, "users", <<>>)
        instances == Get(company, "instances", <<>>)
        channels == Get(company, "channels", <<>>)
    IN  [Company |-> Get(company, "name", "Unknown"),
         Users |-> Len(users),
         Active_Users |-> CountActive(users, "isActive"),
         Channels |-> Len(channels),
         Instances |-> Len(instances),
         Active_Instances |-> CountActive(instances, "active"),
         Broadcasts |-> Get(company, "broadcasts_count", 0),
         Users_per_Channel |-> UsersPerChannel(users, channels),
         Broadcasts_per_Instance |->
             BroadcastsPerInstance(Get(company, "broadcasts_count", 0), instances)]

\* the analysis table of the view, over the filtered companies
CrossAnalysis ==
    /\ view_option' = "Cross Analysis"
    /\ selected_company' \in CompanyFilter
    /\ raised' = "none"
    /\ chart' = [analysis_data |->
                    LET filtered_companies == FilteredCompanies(Companies, selected_company')
                    IN  [i \in 1..Len(filtered_companies) |->
                            AnalysisRecord(filtered_companies[i])]]
    /\ NoHealth /\ NoAlerts /\ NoRevenue /\ NoBenchmark /\ NoMetrics
    /\ UNCHANGED data

\* ------------------------------------------- 2.py: create_activity_heatmap
\* u.get('user_status', u.get('isActive', False))
UserStatusActive(u) == Get(u, "user_status", Get(u, "isActive", FALSE))

\* sum(1 for u in users if u.get('user_status', u.get('isActive', False)))
CountStatusActive(users) == Cardinality({i \in 1..Len(users) : UserStatusActive(users[i])})

HeatmapUsersPct(company) ==
    ActivityRate(CountStatusActive(Get(company, "users", <<>>)), Get(company, "users", <<>>))
HeatmapInstancesPct(company) ==
    ActivityRate(CountActive(Get(company, "instances", <<>>), "active"),
                 Get(company, "instances", <<>>))
HeatmapChannelsPct(company) ==
    ActivityRate(CountActive(Get(company, "channels", <<>>), "isActive"),
                 Get(company, "channels", <<>>))

create_activity_heatmap ==
    LET companies == Companies
    IN  /\ view_option' = "create_activity_heatmap"
        /\ selected_company' = "All Companies"
        /\ raised' = "none"
        /\ chart' = [active_users_pct |-> [i \in 1..Len(companies) |->
                            HeatmapUsersPct(companies[i])],
                     active_instances_pct |-> [i \in 1..Len(companies) |->
                            HeatmapInstancesPct(companies[i])],
                     active_channels_pct |-> [i \in 1..Len(companies) |->
                            HeatmapChannelsPct(companies[i])]]
        /\ NoHealth /\ NoAlerts /\ NoRevenue /\ NoBenchmark /\ NoMetrics
        /\ UNCHANGED data

\* --------------------------------- 2.py: create_resource_utilization_chart
\* users / channels if channels > 0 else 0, on the counters
ChartUsersPerChannel(company) ==
    LET users == Get(company, "users_count", 0)
        channels == Get(company, "channels_count", 1)
    IN  IF channels > 0 THEN RDiv(I(users), I(channels)) ELSE I(0)

\* broadcasts / instance_count if instance_count > 0 else 0, on the counters
ChartBroadcastsPerInstance(company) ==
    LET broadcasts == Get(company, "broadcasts_count", 0)
        instance_count == Get(company, "instances_count", 1)
    IN  IF instance_count > 0 THEN RDiv(I(broadcasts), I(instance_count)) ELSE I(0)

create_resource_utilization_chart ==
    LET companies == Companies
    IN  /\ view_option' = "create_resource_utilization_chart"
        /\ selected_company' = "All Companies"
        /\ raised' = "none"
        /\ chart' = [users_per_channel |-> [i \in 1..Len(companies) |->
                            ChartUsersPerChannel(companies[i])],
                     instances_utilization |-> [i \in 1..Len(companies) |->
                            HeatmapInstancesPct(companies[i])],
                     broadcasts_per_instance |-> [i \in 1..Len(companies) |->
                            ChartBroadcastsPerInstance(companies[i])]]
        /\ NoHealth /\ NoAlerts /\ NoRevenue /\ NoBenchmark /\ NoMetrics
        /\ UNCHANGED data

\* ------------------------------------------------ 1.py: analyze_companies
\* the percentages analyze_users, analyze_instances and analyze_channels
\* print; each is called only for a non-empty collection
CompanyReport(company) ==
    LET users == Get(company, "users", <<>>)
        instances == Get(company, "instances", <<>>)
        channels == Get(company, "channels", <<>>)
        Pct(active, xs) == RMul(RDiv(I(active), I(Len(xs))), I(100))
        u == IF Len(users) > 0
             THEN [active_users_pct |-> Pct(CountStatusActive(users), users)] ELSE <<>>
        i == IF Len(instances) > 0
             THEN [active_instances_pct |-> Pct(CountActive(instances, "active"), instances)] ELSE <<>>
        c == IF Len(channels) > 0
             THEN [active_channels_pct |-> Pct(CountActive(channels, "isActive"), channels)] ELSE <<>>
    IN  [Company |-> Get(company, "name", "Unknown")] @@ u @@ i @@ c

analyze_companies ==
    /\ view_option' = "analyze_companies"
    /\ selected_company' = "All Companies"
    /\ raised' = "none"
    /\ chart' = [report |-> [i \in 1..Len(Companies) |-> CompanyReport(Companies[i])]]
    /\ NoHealth /\ NoAlerts /\ NoRevenue /\ NoBenchmark /\ NoMetrics
    /\ UNCHANGED data

\* ------------------------------------------- 1.py: generate_summary_report
\* the activity summary: the users of every company counted one by one, the
\* percentage printed only when there is a user
generate_summary_report ==
    LET companies == Companies
        total_users == ISum([i \in 1..Len(companies) |-> UsersLen(companies[i])])
        total_active_users ==
            ISum([i \in 1..Len(companies) |->
                     CountStatusActive(Get(companies[i], "users", <<>>))])
        counts == [total_users |-> total_users, total_active_users |-> total_active_users]
    IN  /\ view_option' = "generate_summary_report"
        /\ selected_company' = "All Companies"
        /\ raised' = "none"
        /\ metrics' = IF total_users > 0
                      THEN counts @@ [active_users_pct |->
                               RMul(RDiv(I(total_active_users), I(total_users)), I(100))]
                      ELSE counts
        /\ NoHealth /\ NoAlerts /\ NoRevenue /\ NoBenchmark /\ NoChart
        /\ UNCHANGED data

\* ---------------------------------- categorical fields and type_details
\* the JSON null where a string is expected: Python's None, a value of its
\* own, different from every string of the data and from "Unknown"
None == "None"

\* the JSON null where a dict is expected
NullDict == [null |-> TRUE]

\* bool(d) of a dict or None: None and the empty dict are falsy
Truthy(d) == "null" \notin DOMAIN d /\ DOMAIN d # {}

\* instance.get('type_details', {}): the default is for the absent key only
TypeDetailsOf_KeyDefault(instance) == Get(instance, "type_details", <<>>)

\* instance.get('type_details') or {}
TypeDetailsOf(instance) ==
    IF Truthy(Get(instance, "type_details", NullDict)) THEN instance.type_details ELSE <<>>

\* type_details.get('name', 'Unknown')
TypeNameOf(instance) == Get(TypeDetailsOf(instance), "name", "Unknown")

\* i.get('type_details', {}).get('name', 'Unknown') if i.get('type_details')
\* else 'Unknown'
DetailTypeOf(instance) ==
    IF Truthy(Get(instance, "type_details", NullDict))
    THEN Get(Get(instance, "type_details", <<>>), "name", "Unknown")
    ELSE "Unknown"

\* None has no get: reading the name of a null type_details raises
ReadRaises(instances) ==
    \E i \in 1..Len(instances) : "null" \in DOMAIN TypeDetailsOf(instances[i])

\* instance.get('status', 'Unknown'): the default is for the absent key only
InstanceStatusOf(instance) == Get(instance, "status", "Unknown")

\* 'Active' if instance.get('active', False) else 'Inactive'
ActiveLabel(instance) == IF Get(instance, "active", FALSE) THEN "Active" ELSE "Inactive"

\* collections.Counter over a sequence of keys
Counter(keys) ==
    [k \in {keys[i] : i \in 1..Len(keys)} |->
        Cardinality({i \in 1..Len(keys) : keys[i] = k})]

\* ------------------------------------------------ display fields on copies
\* x = original; x[k] = v: the fields are written into the record of the
\* snapshot itself
Annotate_InPlace(original, fields) ==
    [row |-> fields @@ original, source_after |-> fields @@ original]

\* x = original.copy(); x[k] = v for every field: the row that is shown, and
\* the record of the snapshot as the assignments leave it
Annotate(original, fields) ==
    [row |-> fields @@ original, source_after |-> original]

\* the sidebar filter keeps the company
InFilter(company, selected) ==
    selected = "All Companies" \/ ("name" \in DOMAIN company /\ company.name = selected)

\* the snapshot after the loop that annotates, with the name of its company,
\* every element of the collection key of the companies the filter keeps
AfterAnnotation(d, selected, key) ==
    IF "companies" \notin DOMAIN d THEN d
    ELSE [d EXCEPT !.companies =
            [c \in 1..Len(d.companies) |->
               IF InFilter(d.companies[c], selected) /\ key \in DOMAIN d.companies[c]
               THEN [d.companies[c] EXCEPT ![key] =
                       [j \in 1..Len(d.companies[c][key]) |->
                          Annotate(d.companies[c][key][j],
                                   [company_name |-> Get(d.companies[c], "name", "Unknown")]
                                  ).source_after]]
               ELSE d.companies[c]]]

\* the annotated copies of the collection key of the companies
AnnotatedRows(companies, key) ==
    Flatten([c \in 1..Len(companies) |->
               [j \in 1..Len(Get(companies[c], key, <<>>)) |->
                  Annotate(companies[c][key][j],
                           [company_name |-> Get(companies[c], "name", "Unknown")]).row]])

\* ------------------------------------------------------ 1.py: analyze_users
UserBreakdown(users) ==
    [type_counts |-> Counter([i \in 1..Len(users) |-> UserTypeOf(users[i])]),
     active_count |-> CountStatusActive(users),
     inactive_count |-> Len(users) - CountStatusActive(users)]

\* called for every company with a non-empty users collection
analyze_users ==
    /\ view_option' = "analyze_users"
    /\ selected_company' = "All Companies"
    /\ raised' = "none"
    /\ chart' = [breakdown |->
                   [i \in 1..Len(Companies) |->
                      IF Len(Get(Companies[i], "users", <<>>)) > 0
                      THEN UserBreakdown(Companies[i].users) ELSE <<>>]]
    /\ NoHealth /\ NoAlerts /\ NoRevenue /\ NoBenchmark /\ NoMetrics
    /\ UNCHANGED data

\* -------------------------------------------------- 1.py: analyze_instances
InstanceBreakdown(instances) ==
    [type_counts |-> Counter([i \in 1..Len(instances) |-> TypeNameOf(instances[i])]),
     status_counts |-> Counter([i \in 1..Len(instances) |-> InstanceStatusOf(instances[i])]),
     active_count |-> CountActive(instances, "active")]

\* called for every company with a non-empty instances collection
analyze_instances ==
    LET raises == \E i \in 1..Len(Companies) :
                      ReadRaises(Get(Companies[i], "instances", <<>>))
    IN  /\ view_option' = "analyze_instances"
        /\ selected_company' = "All Companies"
        /\ raised' = IF raises THEN "AttributeError" ELSE "none"
        /\ chart' = IF raises THEN <<>>
                    ELSE [breakdown |->
                            [i \in 1..Len(Companies) |->
                               IF Len(Get(Companies[i], "instances", <<>>)) > 0
                               THEN InstanceBreakdown(Companies[i].instances) ELSE <<>>]]
        /\ NoHealth /\ NoAlerts /\ NoRevenue /\ NoBenchmark /\ NoMetrics
        /\ UNCHANGED data

\* -------------------------------------- 2.py: create_instance_type_analysis
\* the instances of every company, each with the name of its company
AllInstances(companies) == AnnotatedRows(companies, "instances")

\* type_status_matrix[type_name]['Active' if is_active else 'Inactive'] += 1
TypeStatusMatrix(instances) ==
    [t \in {TypeNameOf(instances[i]) : i \in 1..Len(instances)} |->
        Counter([k \in 1..Cardinality({i \in 1..Len(instances) : TypeNameOf(instances[i]) = t}) |->
                   ActiveLabel(SelectSeq(instances, LAMBDA x : TypeNameOf(x) = t)[k])])]

create_instance_type_analysis ==
    LET instances == AllInstances(Companies)
        raises == ReadRaises(instances)
    IN  /\ view_option' = "create_instance_type_analysis"
        /\ selected_company' = "All Companies"
        /\ raised' = IF raises THEN "AttributeError" ELSE "none"
        /\ chart' = IF raises THEN <<>>
                    ELSE [instance_types |->
                              Counter([i \in 1..Len(instances) |-> TypeNameOf(instances[i])]),
                          instance_status |->
                              Counter([i \in 1..Len(instances) |-> InstanceStatusOf(instances[i])]),
                          type_status_matrix |-> TypeStatusMatrix(instances)]
        /\ NoHealth /\ NoAlerts /\ NoRevenue /\ NoBenchmark /\ NoMetrics
        /\ UNCHANGED data

\* ------------------------------------------------ app.py: Instance Analysis
\* one row of the Instance Details table
InstanceDetailRow(instance) ==
    [Company |-> instance.company_name,
     Type |-> DetailTypeOf(instance),
     Status |-> InstanceStatusOf(instance),
     Active |-> Get(instance, "active", FALSE),
     Broadcasts |-> Get(instance, "broadcasts_count", 0)]

\* one row of the Instance Activity by Type chart
TypeActivityRow(instance) ==
    [Type |-> TypeNameOf(instance), Status |-> ActiveLabel(instance), Count |-> 1]

\* the view over the companies the sidebar filter keeps; without instances
\* it shows the warning "No instance data available" and nothing else
InstanceAnalysis ==
    /\ view_option' = "Instance Analysis"
    /\ selected_company' \in CompanyFilter
    /\ LET all_instances == AllInstances(FilteredCompanies(Companies, selected_company'))
           raises == ReadRaises(all_instances)
           active_instances == CountActive(all_instances, "active")
       IN  /\ raised' = IF raises THEN "AttributeError" ELSE "none"
           /\ metrics' = IF Len(all_instances) = 0 THEN <<>>
                         ELSE [total_instances |-> Len(all_instances),
                               active_instances |-> active_instances,
                               active_rate |-> RMul(RDiv(I(active_instances),
                                                         I(Len(all_instances))), I(100)),
                               total_broadcasts |->
                                   ISum([i \in 1..Len(all_instances) |->
                                           Get(all_instances[i], "broadcasts_count", 0)])]
           /\ chart' = IF Len(all_instances) = 0 \/ raises THEN <<>>
                       ELSE [instance_types |->
                                 Counter([i \in 1..Len(all_instances) |->
                                            TypeNameOf(all_instances[i])]),
                             status_count |->
                                 Counter([i \in 1..Len(all_instances) |->
                                            InstanceStatusOf(all_instances[i])]),
                             type_activity |->
                                 [i \in 1..Len(all_instances) |->
                                    TypeActivityRow(all_instances[i])],
                             instances_df |->
                                 [i \in 1..Len(all_instances) |->
                                    InstanceDetailRow(all_instances[i])]]
    /\ NoHealth /\ NoAlerts /\ NoRevenue /\ NoBenchmark
    /\ data' = AfterAnnotation(data, selected_company', "instances")

\* ---------------------------------------------------- app.py: User Analysis
\* the copies of the orphaned users, shown for "All Companies" only
OrphanedRows(d, selected) ==
    IF "orphaned_users" \in DOMAIN d /\ selected = "All Companies"
    THEN [j \in 1..Len(d.orphaned_users) |->
            Annotate(d.orphaned_users[j],
                     [company_name |-> "Orphaned/Unlinked", source |-> "orphaned"]).row]
    ELSE <<>>

\* the snapshot after the two loops of the view
AfterUserAnnotation(d, selected) ==
    LET companies_done ==
            IF "companies" \notin DOMAIN d THEN d
            ELSE [d EXCEPT !.companies =
                    [c \in 1..Len(d.companies) |->
                       IF InFilter(d.companies[c], selected) /\ "users" \in DOMAIN d.companies[c]
                       THEN [d.companies[c] EXCEPT !.users =
                               [j \in 1..Len(d.companies[c].users) |->
                                  Annotate(d.companies[c].users[j],
                                           [company_name |->
                                                Get(d.companies[c], "name", "Unknown"),
                                            source |-> "company"]).source_after]]
                       ELSE d.companies[c]]]
    IN  IF "orphaned_users" \in DOMAIN d /\ selected = "All Companies"
        THEN [companies_done EXCEPT !.orphaned_users =
                [j \in 1..Len(d.orphaned_users) |->
                   Annotate(d.orphaned_users[j],
                            [company_name |-> "Orphaned/Unlinked",
                             source |-> "orphaned"]).source_after]]
        ELSE companies_done

\* the copies of the users of the companies
AllUsers(companies) ==
    Flatten([c \in 1..Len(companies) |->
               [j \in 1..Len(Get(companies[c], "users", <<>>)) |->
                  Annotate(companies[c].users[j],
                           [company_name |-> Get(companies[c], "name", "Unknown"),
                            source |-> "company"]).row]])

\* selected_user_types is the multiselect of the sidebar (empty: no filter),
\* show_active_only its checkbox
UserAnalysis(selected_user_types, show_active_only) ==
    /\ view_option' = "User Analysis"
    /\ selected_company' \in CompanyFilter
    /\ LET all_users == AllUsers(FilteredCompanies(Companies, selected_company'))
           orphaned_users == OrphanedRows(data, selected_company')
           by_type == IF selected_user_types # {}
                      THEN SelectSeq(all_users \o orphaned_users,
                                     LAMBDA u : Get(u, "user_type_name", None)
                                                    \in selected_user_types)
                      ELSE all_users \o orphaned_users
           combined_users == IF show_active_only
                             THEN SelectSeq(by_type, LAMBDA u : Get(u, "isActive", FALSE))
                             ELSE by_type
           active_users == CountActive(combined_users, "isActive")
       IN  /\ metrics' = IF Len(combined_users) = 0 THEN <<>>
                         ELSE [users_in_companies |-> Len(all_users),
                               orphaned_users |-> Len(orphaned_users),
                               filtered_total |-> Len(combined_users),
                               active_rate |-> RMul(RDiv(I(active_users),
                                                         I(Len(combined_users))), I(100))]
           /\ chart' = IF Len(combined_users) = 0 THEN <<>>
                       ELSE [combined_users |-> combined_users,
                             user_types |->
                                 Counter([i \in 1..Len(combined_users) |->
                                            Get(combined_users[i], "user_type_name",
                                                Get(combined_users[i], "type", "Unknown"))]),
                             company_users |->
                                 Counter([i \in 1..Len(combined_users) |->
                                            combined_users[i].company_name])]
    /\ raised' = "none"
    /\ data' = AfterUserAnnotation(data, selected_company')
    /\ NoHealth /\ NoAlerts /\ NoRevenue /\ NoBenchmark

\* ----------------------------------------------- app.py: Broadcast Analysis
BroadcastAnalysis ==
    /\ view_option' = "Broadcast Analysis"
    /\ selected_company' \in CompanyFilter
    /\ LET all_broadcasts ==
               AnnotatedRows(FilteredCompanies(Companies, selected_company'), "broadcasts")
           status_counts == Counter([i \in 1..Len(all_broadcasts) |->
                                       Get(all_broadcasts[i], "status", "Unknown")])
           completed == Get(status_counts, "completed", 0) + Get(status_counts, "Completed", 0)
           pending == Get(status_counts, "pending", 0) + Get(status_counts, "Pending", 0)
       IN  /\ metrics' = IF Len(all_broadcasts) = 0 THEN <<>>
                         ELSE [total_broadcasts |-> Len(all_broadcasts),
                               completed |-> completed,
                               pending |-> pending,
                               completion_rate |-> RMul(RDiv(I(completed),
                                                             I(Len(all_broadcasts))), I(100))]
           /\ chart' = IF Len(all_broadcasts) = 0 THEN <<>>
                       ELSE [all_broadcasts |-> all_broadcasts,
                             status_counts |-> status_counts]
    /\ raised' = "none"
    /\ data' = AfterAnnotation(data, selected_company', "broadcasts")
    /\ NoHealth /\ NoAlerts /\ NoRevenue /\ NoBenchmark

\* ------------------------------------------------ app.py: Predictive Analytics
\* the metadata field each metric of the forecast starts from
BaseField(metric) ==
    CASE metric = "Users" -> "total_users"
      [] metric = "Companies" -> "total_companies"
      [] metric = "Instances" -> "total_instances"
      [] OTHER -> "total_broadcasts"

\* metadata.get('total_users', 0) and the three other totals
BaseOf(metadata, metric) == Get(metadata, BaseField(metric), 0)

\* 1 + (i * 0.05) + (np.random.random() * 0.1): i is the index of the month
\* in months, 0 for the oldest; eps is the random term in thousandths
GrowthFactor(i, eps) == R(1000 + 50 * i + eps, 1000)

\* int(base / growth_factor) if base > 0 else 0
Backfilled(base, growth_factor) ==
    IF base > 0 THEN (base * growth_factor.d) \div growth_factor.n ELSE 0

\* np.polyfit(X, y, 1) with X = 0 .. len(y) - 1: the least-squares line
PolyFit(y) ==
    LET n == Len(y)
        Sx == ISum([i \in 1..n |-> i - 1])
        Sxx == ISum([i \in 1..n |-> (i - 1) * (i - 1)])
        Sy == ISum(y)
        Sxy == ISum([i \in 1..n |-> (i - 1) * y[i]])
        slope == RDiv(I(n * Sxy - Sx * Sy), I(n * Sxx - Sx * Sx))
    IN  [slope |-> slope,
         intercept |-> RDiv(RAdd(I(Sy), RMul(I(-Sx), slope)), I(n))]

\* np.poly1d(coefficients)(x)
PolyVal(coefficients, x) == RAdd(coefficients.intercept, RMul(coefficients.slope, I(x)))

\* np.minimum(predictions, 0)
ClampNegative_Minimum(prediction) == RMin(prediction, I(0))

\* np.maximum(predictions, 0)
ClampNegative(prediction) == IF RLt(prediction, I(0)) THEN I(0) ELSE prediction

\* int(x) of a float: truncation towards zero
IntOf(x) == IF x.n >= 0 THEN x.n \div x.d ELSE -((-x.n) \div x.d)

\* the 12 synthesized months, the oldest first (months runs from 12 months
\* ago to 1 month ago); Month is the number of months from the current one
HistoricalData(metadata, eps) ==
    [r \in 1..12 |->
       [m \in {"Users", "Companies", "Instances", "Broadcasts"} |->
           Backfilled(BaseOf(metadata, m), GrowthFactor(r - 1, eps[r - 1]))]
       @@ [Month |-> r - 13]]

\* the current month, appended by pd.concat
CurrentRow(metadata) ==
    [m \in {"Users", "Companies", "Instances", "Broadcasts"} |-> BaseOf(metadata, m)]
    @@ [Month |-> 0]

\* the predictions of a metric for the next 3 months
Forecast(df_historical, metric) ==
    LET coefficients == PolyFit(Column(df_historical, metric))
    IN  [k \in 1..3 |->
           ClampNegative(PolyVal(coefficients, Len(df_historical) + k - 1))]

\* the view as far as the forecast table; eps[i] is the random term of the
\* month of index i, drawn once per month and shared by the four metrics
PredictiveAnalytics(eps) ==
    LET metadata == Get(data, "metadata", <<>>)
        historical_data == HistoricalData(metadata, eps)
        df_historical == Append(historical_data, CurrentRow(metadata))
        forecasts == [m \in {"Users", "Companies", "Instances", "Broadcasts"} |->
                         Forecast(df_historical, m)]
    IN  /\ view_option' = "Predictive Analytics"
        /\ selected_company' = "All Companies"
        /\ raised' = "none"
        /\ chart' = [growth_factors |-> [r \in 1..12 |-> GrowthFactor(r - 1, eps[r - 1])],
                     historical_data |-> historical_data,
                     df_historical |-> df_historical,
                     coefficients |->
                         [m \in {"Users", "Companies", "Instances", "Broadcasts"} |->
                             PolyFit(Column(df_historical, m))],
                     forecasts |-> forecasts,
                     forecast_data |->
                         [k \in 1..3 |->
                            [m \in {"Users", "Companies", "Instances", "Broadcasts"} |->
                                IntOf(forecasts[m][k])]
                            @@ [Month |-> k]]]
        /\ NoHealth /\ NoAlerts /\ NoRevenue /\ NoBenchmark /\ NoMetrics
        /\ UNCHANGED data

\* ------------------------------------------------- app.py: the view selector
\* the options of the sidebar radio
RadioOptions ==
    {"Executive Summary", "Company Analysis", "User Analysis", "Instance Analysis",
     "Broadcast Analysis", "Cross Analysis", "Business Intelligence",
     "Predictive Analytics", "Customer Health Score", "Revenue Insights",
     "Benchmarking", "Debug View", "Raw Data"}

\* the values of view_option the if/elif chain of main compares with
DispatcherBranches ==
    {"Executive Summary", "Company Analysis", "User Analysis", "Instance Analysis",
     "Broadcast Analysis", "Cross Analysis", "Debug View", "Business Intelligence",
     "Predictive Analytics", "Customer Health Score", "Alerts & Anomalies",
     "Revenue Insights", "Benchmarking", "Raw Data"}

\* ------------------------------------------------------------- behaviours
Unset ==
    /\ view_option = "none"
    /\ selected_company = "All Companies"
    /\ raised = "none"
    /\ health_scores = <<>>
    /\ df_health = <<>>
    /\ alerts = <<>>
    /\ revenue_data = <<>>
    /\ df_revenue = <<>>
    /\ benchmark_data = <<>>
    /\ benchmarks = <<>>
    /\ chart = <<>>
    /\ metrics = <<>>

CompanyNames == <<"Acme", "Globex", "Initech", "Umbrella", "Hooli">>

\* the metadata the merge step writes next to the companies
Metadata(companies) ==
    [total_companies |-> Len(companies),
     total_users |-> ISum(Column(companies, "users_count")),
     total_instances |->
         ISum([i \in 1..Len(companies) |-> Get(companies[i], "instances_count", 0)])]

Snapshot(companies) == [companies |-> companies, metadata |-> Metadata(companies)]

\* companies for the health score: every mix of active users, user types,
\* instances, channels and broadcasts; the counters agree with the collections
HealthCompanies ==
    LET shapes == {t \in (0..MaxUsers) \X (0..MaxUsers) \X (1..Len(UserTypeNames))
                         \X (0..MaxInstances) \X (0..MaxInstances)
                         \X (0..MaxChannels) \X (0..MaxBroadcasts) :
                      /\ t[2] <= t[1]
                      /\ t[3] <= t[1] \/ t[3] = 1
                      /\ t[5] <= t[4]}
    IN  {MkCompany(CompanyNames[1], MkUsers(t[1], t[2], t[3]), MkInstances(t[4], t[5]),
                   MkChannels(t[6], t[6]), t[1], t[4], t[6], t[7]) : t \in shapes}

\* companies for the alert rules: up to MaxAlertUsers users of one type
AlertCompanies ==
    LET shapes == {t \in (0..MaxAlertUsers) \X (0..MaxAlertUsers)
                         \X (0..MaxInstances) \X (0..MaxInstances)
                         \X {0, MaxChannels} \X {0, MaxBroadcasts} :
                      /\ t[2] <= t[1]
                      /\ t[4] <= t[3]}
    IN  {MkCompany(CompanyNames[1], MkUsers(t[1], t[2], 1), MkInstances(t[3], t[4]),
                   MkChannels(t[5], t[5]), t[1], t[3], t[5], t[6]) : t \in shapes}

\* companies for the revenue model: the counters range freely, the users
\* collection holds at most one, inactive, user
BroadcastCounts == {0, 1, 499, 500, 999, 1000}

RevenueCompanies ==
    {MkCompany(CompanyNames[1], MkUsers(t[4], 0, 1), <<>>, <<>>, t[1], t[2], 0, t[3]) :
        t \in (0..MaxUsersCount) \X (0..MaxInstancesCount) \X BroadcastCounts \X (0..1)}

\* small companies for the runs over several companies: at most one user,
\* instance and channel; the counters are exact (equal to the collection
\* lengths), stale (one more than the lengths) or partly absent (no
\* channels_count and no instances_count key); "status" gives every user a
\* user_status field, the opposite of its isActive
SmallCompany(name, nu, na, ni, nc, b, counters) ==
    LET extra == IF counters = "stale" THEN 1 ELSE 0
        c == MkCompany(name, MkUsers(nu, na, 1), MkInstances(ni, ni), MkChannels(nc, nc),
                       nu + extra, ni + extra, nc + extra, b)
    IN  IF counters = "absent"
        THEN Without(Without(c, "channels_count"), "instances_count")
        ELSE IF counters = "status"
        THEN [c EXCEPT !.users = [i \in 1..Len(@) |-> @[i] @@ [user_status |-> ~@[i].isActive]]]
        ELSE c

SmallCompanies(name) ==
    {SmallCompany(name, t[1], t[2], t[3], t[4], t[5], "exact") :
        t \in {t \in (0..1) \X (0..1) \X (0..1) \X (0..1) \X (0..1) : t[2] <= t[1]}}

\* the companies next to the first one: one without anything, one with a
\* user, an instance, a channel and a broadcast, one with stale counters,
\* one with absent counters and one whose user has a user_status
PeerCompanies(name) ==
    {SmallCompany(name, 0, 0, 0, 0, 0, "exact"),
     SmallCompany(name, 1, 1, 1, 1, 1, "exact"),
     SmallCompany(name, 1, 0, 0, 0, 1, "stale"),
     SmallCompany(name, 1, 1, 1, 0, 0, "absent"),
     SmallCompany(name, 1, 0, 1, 1, 1, "status")}

\* the lists of at most n companies, with distinct names
RECURSIVE CompanyLists(_)
CompanyLists(n) ==
    IF n = 0 THEN {<<>>}
    ELSE IF n = 1 THEN {<<>>} \cup {<<c>> : c \in SmallCompanies(CompanyNames[1])}
    ELSE LET shorter == CompanyLists(n - 1)
         IN  shorter \cup {Append(cs, c) : cs \in {l \in shorter : Len(l) = n - 1},
                                           c \in PeerCompanies(CompanyNames[n])}

\* companies for the benchmark: BenchUsers users each; the company at
\* position i has i of them active, or as many as the one at the mirrored
\* position, an active instance in the first case and i broadcasts
BenchCompany(i, n, mirrored) ==
    LET k == IF mirrored THEN n + 1 - i ELSE i
    IN  MkCompany(CompanyNames[i], MkUsers(BenchUsers, k, 1),
                  MkInstances(1, IF mirrored THEN 0 ELSE 1), <<>>, BenchUsers, 1, 0, i)

\* the non-empty lists of at most MaxBenchCompanies such companies
BenchLists ==
    UNION {{[i \in 1..n |-> BenchCompany(i, n, f[i])] : f \in [1..n -> BOOLEAN]} :
              n \in 1..MaxBenchCompanies}

\* the snapshot as loaded, with or without the total_users of the metadata
Init ==
    /\ \E companies \in CompanyLists(MaxCompanies) :
          \/ data = Snapshot(companies)
          \/ data = [Snapshot(companies) EXCEPT !.metadata = Without(@, "total_users")]
    /\ Unset

InitHealth ==
    /\ \E c \in HealthCompanies : data = Snapshot(<<c>>)
    /\ Unset

InitAlerts ==
    /\ \E c \in AlertCompanies : data = Snapshot(<<c>>)
    /\ Unset

InitRevenue ==
    /\ \E c \in RevenueCompanies : data = Snapshot(<<c>>)
    /\ Unset

\* one run of a view the sidebar's radio offers, or of an entry point of 2.py
\* or 1.py; a view that reads the company filter is run with every choice of
\* the selectbox. The radio has no "Alerts & Anomalies" option, SpecAlerts
\* enters that branch of the dispatcher directly
Next ==
    \/ ExecutiveSummary
    \/ CrossAnalysis
    \/ DebugView
    \/ BusinessIntelligence
    \/ CustomerHealthScore
    \/ RevenueInsights
    \/ \E metric_to_compare \in SelectableMetrics : Benchmarking(metric_to_compare)
    \/ create_activity_heatmap
    \/ create_resource_utilization_chart
    \/ analyze_companies
    \/ generate_summary_report

Spec == Init /\ [][Next]_vars

InitBench ==
    /\ \E companies \in BenchLists : data = Snapshot(companies)
    /\ Unset

NextBench == \E metric_to_compare \in SelectableMetrics : Benchmarking(metric_to_compare)
SpecBench == InitBench /\ [][NextBench]_vars

\* the instance reads: instances whose type_details is absent, null, empty
\* or named and whose status is absent, null or a string
TypeDetailsShapes == <<"absent", "null", "empty", "whatsapp", "telegram">>
StatusShapes == <<"absent", "null", "connected">>

TypedInstance(td, st, active) ==
    [active |-> active]
    @@ (IF st = "absent" THEN <<>>
        ELSE [status |-> IF st = "null" THEN None ELSE st])
    @@ (CASE td = "absent" -> <<>>
          [] td = "null" -> [type_details |-> NullDict]
          [] td = "empty" -> [type_details |-> <<>>]
          [] OTHER -> [type_details |-> [name |-> td]])

TypedUser(ut, active) ==
    [isActive |-> active]
    @@ (IF ut = "absent" THEN <<>>
        ELSE [user_type_name |-> IF ut = "null" THEN None ELSE ut])

\* one company with up to MaxTypedInstances instances of every type_details
\* shape, alone or next to a company without instances
InitInstances ==
    /\ \E n \in 1..MaxTypedInstances, alone \in BOOLEAN :
         \E f \in [1..n -> (1..Len(TypeDetailsShapes)) \X BOOLEAN] :
            data = Snapshot(
                <<MkCompany("Acme", <<>>,
                            [i \in 1..n |->
                               TypedInstance(TypeDetailsShapes[f[i][1]], "connected", f[i][2])],
                            <<>>, 0, n, 0, 0)>>
                \o (IF alone THEN <<>>
                    ELSE <<MkCompany("Globex", <<>>, <<>>, <<>>, 0, 0, 0, 0)>>))
    /\ Unset

NextInstances ==
    \/ analyze_instances
    \/ create_instance_type_analysis
    \/ InstanceAnalysis
SpecInstances == InitInstances /\ [][NextInstances]_vars

\* one company whose users and instances carry every shape of a categorical
\* field: the key absent, an explicit null, a string
InitReport ==
    /\ \E nu \in 0..MaxTypedInstances, ni \in 0..MaxTypedInstances :
         \E fu \in [1..nu -> 1..3], fi \in [1..ni -> 1..Len(StatusShapes)] :
            data = Snapshot(
                <<MkCompany("Acme",
                            [i \in 1..nu |->
                               TypedUser(<<"absent", "null", "Agent">>[fu[i]], i = 1)],
                            [i \in 1..ni |->
                               TypedInstance("whatsapp", StatusShapes[fi[i]], i = 1)],
                            <<>>, nu, ni, 0, 0)>>)
    /\ Unset

NextReport ==
    \/ analyze_users
    \/ analyze_instances
SpecReport == InitReport /\ [][NextReport]_vars

\* the scorecard: a company of every mix of users, active users, instances,
\* active instances and broadcasts, alone or followed by the same company
\* with other channels and other user types
ScoreBroadcasts == {0, 297, 400}

ScoreCompany(name, t, nc, k) ==
    MkCompany(name, MkUsers(t[1], t[2], k), MkInstances(t[3], t[4]), MkChannels(nc, nc),
              t[1], t[3], nc, t[5])

InitScore ==
    /\ \E t \in (0..MaxScoreUsers) \X (0..MaxScoreUsers) \X (0..MaxInstances)
                \X (0..MaxInstances) \X ScoreBroadcasts :
         /\ t[2] <= t[1] /\ t[4] <= t[3]
         /\ \E nc \in 0..MaxChannels, k \in 1..2, alone \in BOOLEAN :
               data = Snapshot(<<ScoreCompany("Acme", t, nc, k)>>
                               \o (IF alone THEN <<>>
                                   ELSE <<ScoreCompany("Globex", t,
                                                       (nc + 1) % (MaxChannels + 1),
                                                       3 - k)>>))
    /\ Unset

NextScore == BusinessIntelligence
SpecScore == InitScore /\ [][NextScore]_vars

\* the health score of a company and of three variants of it: one with other
\* active users, one with other user types, one with other broadcasts
VariantCompany(name, nu, na, k, ai, nc, b) ==
    MkCompany(name, MkUsers(nu, na, k), MkInstances(1, ai), MkChannels(nc, nc),
              nu, 1, nc, b)

InitVariants ==
    /\ \E nu \in 1..MaxScoreUsers, ai \in 0..1, nc \in 0..1 :
         \E na, na2 \in 0..nu, k, k2 \in 1..2, b, b2 \in 1..3 :
            data = Snapshot(<<VariantCompany("Acme", nu, na, k, ai, nc, b),
                              VariantCompany("Globex", nu, na2, k, ai, nc, b),
                              VariantCompany("Initech", nu, na, k2, ai, nc, b),
                              VariantCompany("Umbrella", nu, na, k, ai, nc, b2)>>)
    /\ Unset

NextVariants == CustomerHealthScore
SpecVariants == InitVariants /\ [][NextVariants]_vars

\* the views and reports in any order: up to MaxViewCompanies companies, each
\* either empty or with a user, an instance and a broadcast, and a snapshot
\* with or without an orphaned user
ViewCompany(name, nu, ni, nb) ==
    MkCompany(name, MkUsers(nu, nu, 1), MkInstances(ni, ni), <<>>, nu, ni, 0, nb)
    @@ [broadcasts |-> [j \in 1..nb |-> [status |-> "completed"]]]

InitViews ==
    /\ \E n \in 1..MaxViewCompanies, orphans \in BOOLEAN :
         \E f \in [1..n -> 0..1] :
            data = (IF orphans
                    THEN [orphaned_users |->
                             <<[isActive |-> FALSE, user_type_name |-> "Agent"]>>]
                    ELSE <<>>)
                   @@ Snapshot([i \in 1..n |->
                                  ViewCompany(CompanyNames[i], f[i], f[i], f[i])])
    /\ Unset

NextViews ==
    \/ Next
    \/ \E selected_user_types \in {{}, {"Agent"}}, show_active_only \in BOOLEAN :
          UserAnalysis(selected_user_types, show_active_only)
    \/ InstanceAnalysis
    \/ BroadcastAnalysis
    \/ analyze_users
    \/ analyze_instances
    \/ create_instance_type_analysis
SpecViews == InitViews /\ [][NextViews]_vars

\* the forecast: the random term of a month is in [0, 0.1); the patterns are
\* all months at one end of the range, or one month at the other end
EpsHigh == 99
EpsPatterns ==
    {[i \in 0..11 |-> IF (i = odd) = inverted THEN 0 ELSE EpsHigh] :
        odd \in -1..11, inverted \in BOOLEAN}

\* the totals of the metadata the forecast starts from
ForecastTotals == (0..MaxForecastTotal) \cup {20, 100}

InitForecast ==
    /\ \E u \in ForecastTotals :
         data = [companies |-> <<>>,
                 metadata |-> [total_companies |-> 1, total_users |-> u,
                               total_instances |-> 2 * u]]
    /\ Unset

NextForecast == \E eps \in EpsPatterns : PredictiveAnalytics(eps)
SpecForecast == InitForecast /\ [][NextForecast]_vars

\* repeated runs: up to MaxRunCompanies companies, each healthy, weak or
\* billed by counters that exceed its collections; the same shape may come
\* twice, under two names
RunCompany(name, shape) ==
    CASE shape = 1 -> MkCompany(name, MkUsers(4, 4, 4), MkInstances(1, 1), MkChannels(1, 1),
                                4, 1, 1, 10)
      [] shape = 2 -> MkCompany(name, MkUsers(2, 0, 1), MkInstances(1, 0), <<>>, 2, 1, 0, 0)
      [] OTHER -> MkCompany(name, MkUsers(1, 1, 1), <<>>, <<>>, 120, 0, 0, 600)

InitRuns ==
    /\ \E n \in 1..MaxRunCompanies :
         \E f \in [1..n -> 1..3] :
            data = Snapshot([i \in 1..n |-> RunCompany(CompanyNames[i], f[i])])
    /\ Unset

\* the computations in any order and any number of times; the alert branch
\* is entered directly; the forecast draws all its random terms at one end of
\* their range
NextRuns ==
    \/ ExecutiveSummary
    \/ BusinessIntelligence
    \/ CustomerHealthScore
    \/ AlertsAndAnomalies
    \/ RevenueInsights
    \/ \E metric_to_compare \in SelectableMetrics : Benchmarking(metric_to_compare)
    \/ \E eps \in {e \in EpsPatterns : \A i \in DOMAIN e : e[i] = e[0]} :
          PredictiveAnalytics(eps)
SpecRuns == InitRuns /\ [][NextRuns]_vars

NextHealth == CustomerHealthScore
SpecHealth == InitHealth /\ [][NextHealth]_vars

NextAlerts == AlertsAndAnomalies
SpecAlerts == InitAlerts /\ [][NextAlerts]_vars

NextRevenue == RevenueInsights
SpecRevenue == InitRevenue /\ [][NextRevenue]_vars

\* ================================================================ claims
\* what the claims say of a company, in the words of the specification
UsersOf(i) == Get(data.companies[i], "users", <<>>)
InstancesOf(i) == Get(data.companies[i], "instances", <<>>)
ChannelsOf(i) == Get(data.companies[i], "channels", <<>>)
BroadcastsOf(i) == Get(data.companies[i], "broadcasts_count", 0)
ActiveUsersOf(i) == Cardinality({k \in 1..Len(UsersOf(i)) : UsersOf(i)[k].isActive})
ActiveInstancesOf(i) == Cardinality({k \in 1..Len(InstancesOf(i)) : InstancesOf(i)[k].active})
UserTypesOf(i) == {UsersOf(i)[k].user_type_name : k \in 1..Len(UsersOf(i))}

HealthRan == view_option = "Customer Health Score" /\ raised = "none"

C2_TypeDiversityCapped ==
    HealthRan =>
        \A i \in 1..Len(health_scores) :
            /\ RLe(health_scores[i].type_diversity, I(100))
            /\ RLe(health_scores[i].adoption_score, I(100))

\* the tiers of the table, by Status
TierRows ==
    {[Status |-> "Healthy", Risk_Level |-> "Low",
      Recommendation |-> "Explore upsell opportunities"],
     [Status |-> "Stable", Risk_Level |-> "Medium",
      Recommendation |-> "Monitor engagement trends"],
     [Status |-> "At Risk", Risk_Level |-> "High",
      Recommendation |-> "Increase engagement, provide training"],
     [Status |-> "Critical", Risk_Level |-> "Critical",
      Recommendation |-> "Immediate intervention required"]}

\* the Status the table gives a score of num/den
TableStatus(num, den) ==
    IF num >= 80 * den THEN "Healthy"
    ELSE IF num >= 60 * den THEN "Stable"
    ELSE IF num >= 40 * den THEN "At Risk"
    ELSE "Critical"

\* C3: the tier of every health record is the one the table gives its Overall
\* Health (inclusive lower bounds 80, 60, 40), with the Risk Level and the
\* Recommendation of that tier; 80.0 is Healthy, 79.99 Stable, 60.0 Stable,
\* 40.0 At Risk and 39.99 Critical
C3_HealthTiering ==
    /\ HealthTier(I(80)).Status = "Healthy"
    /\ HealthTier(R(7999, 100)).Status = "Stable"
    /\ HealthTier(I(60)).Status = "Stable"
    /\ HealthTier(R(5999, 100)).Status = "At Risk"
    /\ HealthTier(I(40)).Status = "At Risk"
    /\ HealthTier(R(3999, 100)).Status = "Critical"
    /\ HealthRan =>
          \A i \in 1..Len(health_scores) :
              LET h == health_scores[i]
              IN  /\ h.Status = TableStatus(h.overall_health.n, h.overall_health.d)
                  /\ [Status |-> h.Status, Risk_Level |-> h.Risk_Level,
                      Recommendation |-> h.Recommendation] \in TierRows

\* a company scoring exactly 80 is Healthy
C3_Witness ==
    /\ HealthRan
    /\ \E i \in 1..Len(health_scores) :
          /\ health_scores[i].overall_health = I(80)
          /\ health_scores[i].Status = "Healthy"

\* the rates and scores of company i as the specification defines them
UserActivationPct(i) ==
    IF Len(UsersOf(i)) = 0 THEN I(0) ELSE R(100 * ActiveUsersOf(i), Len(UsersOf(i)))
InstanceUtilizationPct(i) ==
    IF Len(InstancesOf(i)) = 0 THEN I(0) ELSE R(100 * ActiveInstancesOf(i), Len(InstancesOf(i)))
UsersPerChannelOf(i) ==
    IF Len(ChannelsOf(i)) = 0 THEN I(0) ELSE R(Len(UsersOf(i)), Len(ChannelsOf(i)))
BroadcastsPerInstanceOf(i) ==
    IF Len(InstancesOf(i)) = 0 THEN I(0) ELSE R(BroadcastsOf(i), Len(InstancesOf(i)))
SpecEngagement(i) ==
    LET ua == UserActivationPct(i)
        iu == InstanceUtilizationPct(i)
    IN  R(6 * ua.n * iu.d + 4 * iu.n * ua.d, 10 * ua.d * iu.d)
SpecTypeDiversity(i) == R(100 * Cardinality(UserTypesOf(i)), 4)
SpecAdoption(i) ==
    LET td == SpecTypeDiversity(i)
        hb == IF BroadcastsOf(i) > 0 THEN 100 ELSE 0
        hc == IF Len(ChannelsOf(i)) > 0 THEN 100 ELSE 0
    IN  R(4 * td.n + (3 * hb + 3 * hc) * td.d, 10 * td.d)
SpecGrowthUncapped(i) ==
    LET upc == UsersPerChannelOf(i)
        bpi == BroadcastsPerInstanceOf(i)
    IN  R(5 * upc.n * bpi.d + 10 * bpi.n * upc.d, upc.d * bpi.d)
SpecGrowth(i) ==
    IF RGt(SpecGrowthUncapped(i), I(100)) THEN I(100) ELSE SpecGrowthUncapped(i)
SpecOverallHealth(i) ==
    LET e == SpecEngagement(i)
        a == SpecAdoption(i)
        g == SpecGrowth(i)
    IN  R(4 * e.n * a.d * g.d + 3 * a.n * e.d * g.d + 3 * g.n * e.d * a.d,
          10 * e.d * a.d * g.d)

\* C4: the health record of every company has Engagement = userActivation x 0.6
\* + instanceUtilization x 0.4, Adoption = TypeDiversity x 0.4 + 30 if it has
\* broadcasts + 30 if it has a channel, GrowthPotential = min(usersPerChannel
\* / 10 x 50 + broadcastsPerInstance / 5 x 50, 100) and OverallHealth =
\* Engagement x 0.4 + Adoption x 0.3 + GrowthPotential x 0.3
C4_HealthFormulas ==
    HealthRan =>
        /\ Len(health_scores) = Len(data.companies)
        /\ \A i \in 1..Len(health_scores) :
              /\ health_scores[i].engagement_score = SpecEngagement(i)
              /\ health_scores[i].adoption_score = SpecAdoption(i)
              /\ health_scores[i].growth_potential = SpecGrowth(i)
              /\ health_scores[i].overall_health = SpecOverallHealth(i)

\* a company with users, instances and channels, partly active, whose
\* growth term is cut at 100
C4_Witness ==
    /\ HealthRan
    /\ \E i \in 1..Len(health_scores) :
          /\ Len(ChannelsOf(i)) > 0 /\ Len(InstancesOf(i)) > 0
          /\ ActiveUsersOf(i) > 0 /\ ActiveUsersOf(i) < Len(UsersOf(i))
          /\ RGt(SpecGrowthUncapped(i), I(100))
          /\ health_scores[i].growth_potential = I(100)

\* ---------------------------------------------------------------- alerts
AlertsRan == view_option = "Alerts & Anomalies" /\ raised = "none"

NameOf(i) == Get(data.companies[i], "name", "Unknown")
InactiveInstancesOf(i) == Len(InstancesOf(i)) - ActiveInstancesOf(i)

\* the rules of the table whose condition holds for company i, each named by
\* its category and severity
RulesHolding(i) ==
    LET nu == Len(UsersOf(i))
        na == ActiveUsersOf(i)
        ni == Len(InstancesOf(i))
        nc == Len(ChannelsOf(i))
    IN  {r \in {<<"User Activation", "High">>, <<"User Activation", "Medium">>,
                <<"Usage", "Medium">>, <<"Resource Optimization", "Low">>,
                <<"Setup", "High">>, <<"Capacity", "Low">>, <<"Churn Risk", "Critical">>} :
            \/ r = <<"User Activation", "High">> /\ nu > 0 /\ 100 * na < 50 * nu
            \/ r = <<"User Activation", "Medium">> /\ nu > 0 /\ 50 * nu <= 100 * na
                                                   /\ 100 * na < 70 * nu
            \/ r = <<"Usage", "Medium">> /\ ni > 0 /\ BroadcastsOf(i) = 0
            \/ r = <<"Resource Optimization", "Low">> /\ ni > 0
                                                      /\ 2 * InactiveInstancesOf(i) > ni
            \/ r = <<"Setup", "High">> /\ nu > 10 /\ nc = 0
            \/ r = <<"Capacity", "Low">> /\ ni > 0 /\ nu > 20 * ni
            \/ r = <<"Churn Risk", "Critical">> /\ nu = 0}

\* the positions in alerts of the alerts of company i
AlertsOf(i) == {k \in 1..Len(alerts) : alerts[k].Company = NameOf(i)}
RulesFired(i) == {<<alerts[k].Category, alerts[k].Severity>> : k \in AlertsOf(i)}

\* C5: the alerts of a company are exactly the rules of the table whose
\* condition holds for it, each once, whatever the other rules do
C5_AlertsAreTheRulesThatHold ==
    AlertsRan =>
        \A i \in 1..Len(data.companies) :
            /\ RulesFired(i) = RulesHolding(i)
            /\ Cardinality(AlertsOf(i)) = Cardinality(RulesHolding(i))

\* a company with more than 20 inactive users per instance and no channel:
\* the three rules fire together
C5_Witness ==
    /\ AlertsRan
    /\ \E i \in 1..Len(data.companies) :
          {<<"User Activation", "High">>, <<"Setup", "High">>, <<"Capacity", "Low">>}
              \subseteq RulesFired(i)

\* C6: No users never fires together with Low activation, Moderate
\* activation, Missing channels or High user:instance ratio, and Low
\* activation never together with Moderate activation
C6_ExclusiveRulesNeverCoFire ==
    AlertsRan =>
        \A i \in 1..Len(data.companies) :
            /\ <<"Churn Risk", "Critical">> \in RulesFired(i) =>
                  RulesFired(i) \cap {<<"User Activation", "High">>,
                                      <<"User Activation", "Medium">>,
                                      <<"Setup", "High">>, <<"Capacity", "Low">>} = {}
            /\ ~({<<"User Activation", "High">>, <<"User Activation", "Medium">>}
                    \subseteq RulesFired(i))

\* a company without users but with instances: No users fires next to the
\* instance rules
C6_Witness ==
    /\ AlertsRan
    /\ \E i \in 1..Len(data.companies) :
          /\ <<"Churn Risk", "Critical">> \in RulesFired(i)
          /\ <<"Usage", "Medium">> \in RulesFired(i)

\* --------------------------------------------------------------- revenue
RevenueRan == view_option = "Revenue Insights" /\ raised = "none"

UsersCountOf(i) == Get(data.companies[i], "users_count", 0)
InstancesCountOf(i) == Get(data.companies[i], "instances_count", 0)
\* the monthly revenue of company i in cents
MonthlyCents(i) == UsersCountOf(i) * 1000 + InstancesCountOf(i) * 5000 + BroadcastsOf(i)

\* C7: Monthly Revenue = users_count x 10 + instances_count x 50 +
\* broadcasts_count x 0.01 on the counters, Annual Revenue = Monthly x 12 and
\* ARPU = Monthly / users_count, 0 when users_count is 0
C7_RevenueFormulas ==
    RevenueRan =>
        /\ Len(revenue_data) = Len(data.companies)
        /\ \A i \in 1..Len(revenue_data) :
              LET r == revenue_data[i]
              IN  /\ r.Monthly_Revenue = R(MonthlyCents(i), 100)
                  /\ r.Annual_Revenue = R(12 * MonthlyCents(i), 100)
                  /\ r.ARPU = IF UsersCountOf(i) = 0 THEN I(0)
                              ELSE R(MonthlyCents(i), 100 * UsersCountOf(i))

\* a company billed for more users than its users collection holds, with
\* instances and broadcasts
C7_Witness ==
    /\ RevenueRan
    /\ \E i \in 1..Len(revenue_data) :
          /\ UsersCountOf(i) > Len(UsersOf(i)) /\ Len(UsersOf(i)) > 0
          /\ InstancesCountOf(i) > 0 /\ BroadcastsOf(i) > 0
          /\ revenue_data[i].ARPU # I(0)

\* the tier the table gives a monthly revenue in cents
TableTier(cents) ==
    IF cents >= 500000 THEN "Enterprise"
    ELSE IF cents >= 100000 THEN "Professional"
    ELSE IF cents >= 10000 THEN "Growth"
    ELSE "Starter"

\* C8: the tier is the one the table gives the monthly revenue (inclusive
\* lower bounds 5000, 1000, 100); 100 users, 2 instances and 500 broadcasts
\* make 1105 a month, Professional
C8_RevenueTiering ==
    /\ RevenueTier(I(5000)) = "Enterprise"
    /\ RevenueTier(R(499999, 100)) = "Professional"
    /\ RevenueTier(I(1000)) = "Professional"
    /\ RevenueTier(R(99999, 100)) = "Growth"
    /\ RevenueTier(I(100)) = "Growth"
    /\ RevenueTier(R(9999, 100)) = "Starter"
    /\ RevenueRan =>
          \A i \in 1..Len(revenue_data) :
              /\ revenue_data[i].Tier = TableTier(MonthlyCents(i))
              /\ (UsersCountOf(i) = 100 /\ InstancesCountOf(i) = 2 /\ BroadcastsOf(i) = 500)
                    => /\ revenue_data[i].Monthly_Revenue = I(1105)
                       /\ revenue_data[i].Tier = "Professional"

\* the company with 100 users, 2 instances and 500 broadcasts
C8_Witness ==
    /\ RevenueRan
    /\ \E i \in 1..Len(revenue_data) :
          /\ UsersCountOf(i) = 100 /\ InstancesCountOf(i) = 2 /\ BroadcastsOf(i) = 500
          /\ revenue_data[i].Tier = "Professional"

\* ------------------------------------------------- divisions and empties
\* C9: no view divides by zero or shows a not-a-number: the revenue
\* composition with a total revenue of 0, the match rate of the Debug View
\* with a total_users of 0 and the health overview without companies each
\* yield 0
C9_NoDivisionByZero ==
    /\ raised # "ZeroDivisionError"
    /\ view_option = "Debug View" =>
          /\ "match_rate" \in DOMAIN metrics
          /\ IsFinite(metrics.match_rate)
          /\ Get(Get(data, "metadata", <<>>), "total_users", 1) = 0
                => metrics.match_rate = I(0)
    /\ (view_option = "Revenue Insights" /\ Len(Companies) > 0) =>
          /\ IsFinite(metrics.user_pct)
          /\ IsFinite(metrics.instance_pct)
          /\ IsFinite(metrics.broadcast_pct)
          /\ metrics.total_mrr = I(0) =>
                /\ metrics.user_pct = I(0)
                /\ metrics.instance_pct = I(0)
                /\ metrics.broadcast_pct = I(0)
    /\ (view_option = "Customer Health Score" /\ Len(Companies) = 0) =>
          /\ raised = "none"
          /\ "healthy_pct" \in DOMAIN metrics
          /\ metrics.healthy_pct = I(0)
          /\ metrics.at_risk_pct = I(0)
          /\ metrics.critical_pct = I(0)

\* the rates of one company that must be 0: those over an empty collection
ZeroWhenEmpty(i, users_rate, instances_rate, channels_rate) ==
    /\ Len(UsersOf(i)) = 0 => \A x \in users_rate : x = I(0)
    /\ Len(InstancesOf(i)) = 0 => \A x \in instances_rate : x = I(0)
    /\ Len(ChannelsOf(i)) = 0 => \A x \in channels_rate : x = I(0)

\* C10: in the dashboard, the interactive report and the console analyzer a
\* company whose users, instances or channels collection is empty has the
\* rates over that collection (activation, utilization, channel activity,
\* users per channel, broadcasts per instance, broadcasts per user) equal
\* to 0, and no error is raised
C10_EmptyCollectionRatesAreZero ==
    /\ (view_option = "Customer Health Score" /\ Len(Companies) > 0) =>
          /\ raised = "none"
          /\ \A i \in 1..Len(health_scores) :
                ZeroWhenEmpty(i, {health_scores[i].Active_Users_pct},
                              {health_scores[i].Active_Instances_pct}, {})
    /\ (view_option = "Benchmarking" /\ Len(Companies) > 0) =>
          /\ raised = "none"
          /\ \A i \in 1..Len(benchmark_data) :
                ZeroWhenEmpty(i, {benchmark_data[i].User_Activation_pct,
                                  benchmark_data[i].Broadcasts_User},
                              {benchmark_data[i].Instance_Utilization_pct,
                               benchmark_data[i].Broadcasts_Instance},
                              {benchmark_data[i].Users_Channel})
    /\ view_option = "Executive Summary" =>
          /\ raised = "none"
          /\ \A i \in 1..Len(chart.heatmap_data) :
                ZeroWhenEmpty(i, {chart.heatmap_data[i].Users_Active_pct},
                              {chart.heatmap_data[i].Instances_Active_pct},
                              {chart.heatmap_data[i].Channels_Active_pct})
    /\ view_option = "Cross Analysis" =>
          /\ raised = "none"
          /\ \A k \in 1..Len(chart.analysis_data) :
                \A i \in 1..Len(Companies) :
                    NameOf(i) = chart.analysis_data[k].Company =>
                        ZeroWhenEmpty(i, {},
                                      {chart.analysis_data[k].Broadcasts_per_Instance},
                                      {chart.analysis_data[k].Users_per_Channel})
    /\ view_option = "create_activity_heatmap" =>
          /\ raised = "none"
          /\ \A i \in 1..Len(Companies) :
                ZeroWhenEmpty(i, {chart.active_users_pct[i]},
                              {chart.active_instances_pct[i]},
                              {chart.active_channels_pct[i]})
    /\ view_option = "create_resource_utilization_chart" =>
          /\ raised = "none"
          /\ \A i \in 1..Len(Companies) :
                ZeroWhenEmpty(i, {},
                              {chart.instances_utilization[i],
                               chart.broadcasts_per_instance[i]},
                              {chart.users_per_channel[i]})
    /\ view_option = "analyze_companies" => raised = "none"

\* ------------------------------------------------------ empty company set
\* C11: with no companies the health scoring, the scorecard, the alerts and
\* the revenue computation each end without an error and with an empty
\* result list
C11_EmptyCompanySetIsNoOp ==
    Len(Companies) = 0 =>
        /\ view_option = "Customer Health Score" =>
              raised = "none" /\ health_scores = <<>> /\ df_health = <<>>
        /\ view_option = "Business Intelligence" =>
              /\ raised = "none"
              /\ chart.company_scores = <<>>
              /\ "df_scores" \in DOMAIN chart /\ chart.df_scores = <<>>
        /\ view_option = "Alerts & Anomalies" => raised = "none" /\ alerts = <<>>
        /\ view_option = "Revenue Insights" =>
              raised = "none" /\ revenue_data = <<>> /\ df_revenue = <<>>

\* C12: benchmarking with no companies ends with an explicit insufficient-data
\* signal: no percentile is reported and no unrelated error ends the view
C12_EmptyBenchmarkSignalsInsufficientData ==
    (view_option = "Benchmarking" /\ Len(Companies) = 0) =>
        /\ raised = "InsufficientData"
        /\ benchmarks = <<>>

\* ------------------------------------------------------------ benchmarks
BenchmarkRan == view_option = "Benchmarking" /\ raised = "none"

\* the values of a metric over the benchmark records, as a bag of positions
ValuesOf(metric) == [i \in 1..Len(benchmark_data) |-> benchmark_data[i][metric]]

\* the k-th smallest of the values xs (1 <= k <= Len(xs)), by counting
KthSmallest(xs, k) ==
    CHOOSE v \in {xs[i] : i \in 1..Len(xs)} :
        /\ Cardinality({i \in 1..Len(xs) : RLt(xs[i], v)}) < k
        /\ Cardinality({i \in 1..Len(xs) : RLe(xs[i], v)}) >= k

\* the linear-interpolation percentile qn/qd of the values xs: at the rank
\* h = (n - 1) x q, between the two values around it
Percentile(xs, qn, qd) ==
    LET h == (Len(xs) - 1) * qn
        below == KthSmallest(xs, (h \div qd) + 1)
        above == KthSmallest(xs, IF (h \div qd) + 2 <= Len(xs) THEN (h \div qd) + 2
                                 ELSE Len(xs))
        r == h % qd
    IN  R((qd - r) * below.n * above.d + r * above.n * below.d, qd * below.d * above.d)

\* C13: the 25th, 50th and 75th percentiles of every benchmarked metric are
\* the linear-interpolation percentiles of its values; for [10,20,30,40] the
\* median is 25, the 25th percentile 17.5 and the 75th 32.5, and with one
\* company all three are that company's value
C13_PercentilesInterpolateLinearly ==
    BenchmarkRan =>
        \A m \in DOMAIN benchmarks :
            /\ benchmarks[m].Bottom_25 = Percentile(ValuesOf(m), 1, 4)
            /\ benchmarks[m].Median = Percentile(ValuesOf(m), 1, 2)
            /\ benchmarks[m].Top_25 = Percentile(ValuesOf(m), 3, 4)
            /\ ValuesOf(m) = <<I(10), I(20), I(30), I(40)>> =>
                  /\ benchmarks[m].Bottom_25 = R(35, 2)
                  /\ benchmarks[m].Median = I(25)
                  /\ benchmarks[m].Top_25 = R(65, 2)
            /\ Len(benchmark_data) = 1 =>
                  /\ benchmarks[m].Bottom_25 = benchmark_data[1][m]
                  /\ benchmarks[m].Median = benchmark_data[1][m]
                  /\ benchmarks[m].Top_25 = benchmark_data[1][m]

\* four companies with activations 40, 30, 20 and 10, in that order
C13_Witness ==
    /\ BenchmarkRan
    /\ ValuesOf("User_Activation_pct") = <<I(40), I(30), I(20), I(10)>>
    /\ benchmarks["User_Activation_pct"].Median = I(25)
    /\ benchmarks["User_Activation_pct"].Bottom_25 = R(35, 2)

\* C14: each of the four selectable benchmark metrics has its 25th, 50th and
\* 75th percentiles computed, so the comparison of the chosen metric always
\* has its benchmark values
C14_EverySelectableMetricHasBenchmarks ==
    BenchmarkRan =>
        /\ SelectableMetrics \subseteq DOMAIN benchmarks
        /\ chart.metric \in DOMAIN benchmarks
        /\ chart.lines # <<>>

\* C15: the benchmark is computed over the current filtered company set: with
\* one company selected in the company filter, over that company only
C15_BenchmarkUsesFilteredCompanies ==
    (BenchmarkRan /\ selected_company # "All Companies") =>
        /\ \A i \in 1..Len(benchmark_data) : benchmark_data[i].Company = selected_company
        /\ Len(benchmark_data) =
              Cardinality({i \in 1..Len(Companies) : NameOf(i) = selected_company})

\* ------------------------------------------------------- activity flags
\* the activity flag of a user: user_status when present, isActive otherwise
FlagOf(u) == IF "user_status" \in DOMAIN u THEN u.user_status ELSE u.isActive

\* the user activation % of company i by that flag
FlagActivationPct(i) ==
    IF Len(UsersOf(i)) = 0 THEN I(0)
    ELSE R(100 * Cardinality({k \in 1..Len(UsersOf(i)) : FlagOf(UsersOf(i)[k])}),
           Len(UsersOf(i)))

\* C16: every computation of a company's user activation % takes the flag
\* of a user from user_status when present and from isActive otherwise, so
\* the console report, the chart generator and the dashboard agree
C16_ActivationUsesUserStatus ==
    /\ view_option = "analyze_companies" =>
          \A i \in 1..Len(Companies) :
              "active_users_pct" \in DOMAIN chart.report[i] =>
                  chart.report[i].active_users_pct = FlagActivationPct(i)
    /\ view_option = "create_activity_heatmap" =>
          \A i \in 1..Len(Companies) : chart.active_users_pct[i] = FlagActivationPct(i)
    /\ view_option = "Executive Summary" =>
          \A i \in 1..Len(chart.heatmap_data) :
              chart.heatmap_data[i].Users_Active_pct = FlagActivationPct(i)
    /\ (view_option = "Customer Health Score" /\ raised = "none") =>
          \A i \in 1..Len(health_scores) :
              health_scores[i].Active_Users_pct = Round1(FlagActivationPct(i))
    /\ BenchmarkRan =>
          \A i \in 1..Len(benchmark_data) :
              benchmark_data[i].User_Activation_pct = Round1(FlagActivationPct(i))
    /\ (view_option = "Business Intelligence" /\ raised = "none") =>
          \A i \in 1..Len(chart.company_scores) :
              chart.company_scores[i].User_Activity_pct = Round1(FlagActivationPct(i))

\* ---------------------------------------------------- platform activation
\* the users of all companies' collections, and the active ones among them
PlatformUsers == ISum([i \in 1..Len(Companies) |-> Len(UsersOf(i))])
PlatformActiveUsers == ISum([i \in 1..Len(Companies) |-> ActiveUsersOf(i)])
PlatformFlaggedUsers ==
    ISum([i \in 1..Len(Companies) |->
             Cardinality({k \in 1..Len(UsersOf(i)) : FlagOf(UsersOf(i)[k])})])

\* C17: the platform-wide user activation % is the active users over the
\* users of all companies' collections, times 100 (0 without users), and so
\* lies in [0,100]
C17_PlatformActivationIsVolumeWeighted ==
    /\ view_option = "Business Intelligence" =>
          /\ metrics.active_user_rate =
                (IF PlatformUsers = 0 THEN I(0)
                 ELSE R(100 * PlatformActiveUsers, PlatformUsers))
          /\ RGe(metrics.active_user_rate, I(0))
          /\ RLe(metrics.active_user_rate, I(100))
    /\ (view_option = "generate_summary_report" /\ "active_users_pct" \in DOMAIN metrics) =>
          /\ metrics.active_users_pct = R(100 * PlatformFlaggedUsers, PlatformUsers)
          /\ RGe(metrics.active_users_pct, I(0))
          /\ RLe(metrics.active_users_pct, I(100))

\* ----------------------------------------------------------- absent fields
\* C18: a count field that is absent is read as 0: a company without
\* channels_count has users-per-channel 0, one without instances_count has
\* broadcasts-per-instance 0, and a metadata without total_users counts 0
\* users
C18_AbsentCountsAreZero ==
    /\ view_option = "create_resource_utilization_chart" =>
          \A i \in 1..Len(Companies) :
              /\ "channels_count" \notin DOMAIN Companies[i] =>
                    chart.users_per_channel[i] = I(0)
              /\ "instances_count" \notin DOMAIN Companies[i] =>
                    chart.broadcasts_per_instance[i] = I(0)
    /\ (view_option = "Debug View"
        /\ "total_users" \notin DOMAIN Get(data, "metadata", <<>>)) =>
          /\ raised = "none"
          /\ metrics.missing_users = 0 - PlatformUsers
          /\ metrics.match_rate = I(0)

\* ---------------------------------------------------------------- C19
\* the value a categorical field is said to read as: the string of the data,
\* and "Unknown" for an absent key and for an explicit null alike
SpecCategory(d, k) == IF k \in DOMAIN d /\ d[k] # None THEN d[k] ELSE "Unknown"

\* C19: every categorical field reads as "Unknown" when its key is absent and
\* when its value is an explicit null, so the type counts of analyze_users and
\* the status grouping of analyze_instances count the null users and
\* instances under "Unknown" and have no category of their own for null.
C19_NullCategoryReadsAsUnknown ==
    /\ view_option = "analyze_users" =>
         \A i \in 1..Len(Companies) :
            Len(UsersOf(i)) > 0 =>
               chart.breakdown[i].type_counts =
                   Counter([j \in 1..Len(UsersOf(i)) |->
                              SpecCategory(UsersOf(i)[j], "user_type_name")])
    /\ (view_option = "analyze_instances" /\ raised = "none") =>
         \A i \in 1..Len(Companies) :
            Len(InstancesOf(i)) > 0 =>
               chart.breakdown[i].status_counts =
                   Counter([j \in 1..Len(InstancesOf(i)) |->
                              SpecCategory(InstancesOf(i)[j], "status")])

\* ---------------------------------------------------------------- C20
\* the instance with an explicit null type_details replaced by the same
\* instance without the key
NullAsAbsent(instance) ==
    IF "type_details" \in DOMAIN instance /\ "null" \in DOMAIN instance.type_details
    THEN Without(instance, "type_details")
    ELSE instance

\* the type name of an instance that has no null: the name of its
\* type_details, "Unknown" without the key or without a name
SpecTypeName(instance) ==
    LET x == NullAsAbsent(instance)
    IN  IF "type_details" \in DOMAIN x /\ "name" \in DOMAIN x.type_details
        THEN x.type_details.name
        ELSE "Unknown"

SpecTypeCounts(instances) ==
    Counter([i \in 1..Len(instances) |-> SpecTypeName(instances[i])])

\* the instances the Instance Analysis view works on
ShownInstances == AllInstances(FilteredCompanies(Companies, selected_company))

\* C20: an instance whose type_details is an explicit null is classified as
\* the same instance without the key is, under the type name "Unknown", by
\* the type counts of analyze_instances, by the type counts of
\* create_instance_type_analysis and by the type pie, the activity-by-type
\* rows and the details table of the Instance Analysis view; none of these
\* reads raises.
C20_NullTypeDetailsIsAbsent ==
    /\ raised = "none"
    /\ view_option = "analyze_instances" =>
         \A i \in 1..Len(Companies) :
            Len(InstancesOf(i)) > 0 =>
               chart.breakdown[i].type_counts = SpecTypeCounts(InstancesOf(i))
    /\ view_option = "create_instance_type_analysis" =>
         chart.instance_types = SpecTypeCounts(AllInstances(Companies))
    /\ (view_option = "Instance Analysis" /\ Len(ShownInstances) > 0) =>
         /\ chart.instance_types = SpecTypeCounts(ShownInstances)
         /\ \A i \in 1..Len(ShownInstances) :
               /\ chart.type_activity[i].Type = SpecTypeName(ShownInstances[i])
               /\ chart.instances_df[i].Type = SpecTypeName(ShownInstances[i])

\* the Instance Analysis view over an instance with a null type_details, an
\* instance without the key and a named instance: the first two are both
\* rows of type "Unknown"
C20_Witness ==
    /\ view_option = "Instance Analysis"
    /\ raised = "none"
    /\ Len(ShownInstances) > 0
    /\ \E i, j \in 1..Len(ShownInstances) :
          /\ "type_details" \in DOMAIN ShownInstances[i]
          /\ "null" \in DOMAIN ShownInstances[i].type_details
          /\ "type_details" \notin DOMAIN ShownInstances[j]
          /\ chart.instances_df[i].Type = "Unknown"
          /\ chart.instances_df[j].Type = "Unknown"
          /\ chart.type_activity[i].Type = "Unknown"
          /\ chart.instance_types["Unknown"] >= 2

\* ---------------------------------------------------------------- C21
\* the scorecard of the Business Intelligence view has been computed
ScoreRan == view_option = "Business Intelligence" /\ raised = "none"

\* the score the scorecard is said to hold, from the counts of the company
SpecOverallScore(i) ==
    LET user_activity == IF Len(UsersOf(i)) = 0 THEN I(0)
                         ELSE R(100 * ActiveUsersOf(i), Len(UsersOf(i)))
        instance_activity == IF Len(InstancesOf(i)) = 0 THEN I(0)
                             ELSE R(100 * ActiveInstancesOf(i), Len(InstancesOf(i)))
        total == Len(UsersOf(i)) + Len(InstancesOf(i)) + BroadcastsOf(i)
        capped == IF total >= 300 THEN I(100) ELSE R(total, 3)
    IN  R(3 * user_activity.n * instance_activity.d * capped.d
            + 3 * instance_activity.n * user_activity.d * capped.d
            + 4 * capped.n * user_activity.d * instance_activity.d,
          10 * user_activity.d * instance_activity.d * capped.d)

\* two companies with the same users, active users, instances, active
\* instances and broadcasts
SameActivity(i, j) ==
    /\ Len(UsersOf(i)) = Len(UsersOf(j))
    /\ ActiveUsersOf(i) = ActiveUsersOf(j)
    /\ Len(InstancesOf(i)) = Len(InstancesOf(j))
    /\ ActiveInstancesOf(i) = ActiveInstancesOf(j)
    /\ BroadcastsOf(i) = BroadcastsOf(j)

\* C21: the scorecard Overall Score of every company is userActivity x 0.3 +
\* instanceActivity x 0.3 + min(resourceUsage, 100) x 0.4 with resourceUsage =
\* (users + instances + broadcasts) / 3; it lies in [0,100]; and two companies
\* that differ only in their channels and user types have the same Overall
\* Score.
C21_OverallScoreIsIndependent ==
    ScoreRan =>
      \A i \in 1..Len(Companies) :
         /\ chart.company_scores[i].overall_score = SpecOverallScore(i)
         /\ RGe(chart.company_scores[i].overall_score, I(0))
         /\ RLe(chart.company_scores[i].overall_score, I(100))
         /\ \A j \in 1..Len(Companies) :
               SameActivity(i, j) =>
                  chart.company_scores[i].overall_score
                      = chart.company_scores[j].overall_score

\* two companies that differ in channels and user types: their Overall
\* Health differs, their Overall Score is the same, and the resource usage of
\* the first is above the cap
C21_Witness ==
    /\ ScoreRan
    /\ Len(Companies) = 2
    /\ SameActivity(1, 2)
    /\ Len(ChannelsOf(1)) # Len(ChannelsOf(2))
    /\ UserTypesOf(1) # UserTypesOf(2)
    /\ HealthRecord(Companies[1]).overall_health # HealthRecord(Companies[2]).overall_health
    /\ chart.company_scores[1].overall_score = chart.company_scores[2].overall_score
    /\ Len(UsersOf(1)) + Len(InstancesOf(1)) + BroadcastsOf(1) > 300

\* ---------------------------------------------------------------- C22
\* the health record i has inputs at most those of the health record j
InputsAtMost(i, j) ==
    /\ RLe(health_scores[i].engagement_score, health_scores[j].engagement_score)
    /\ RLe(health_scores[i].adoption_score, health_scores[j].adoption_score)
    /\ RLe(health_scores[i].growth_potential, health_scores[j].growth_potential)

\* the number of inputs in which the health records i and j differ
InputsChanged(i, j) ==
    Cardinality({f \in {"engagement_score", "adoption_score", "growth_potential"} :
                    health_scores[i][f] # health_scores[j][f]})

\* C22: Overall Health is monotonically non-decreasing in each of Engagement,
\* Adoption and Growth Potential: of two health records that differ in one of
\* the three scores only, the one with the larger score has an Overall Health
\* at least as large.
C22_OverallHealthIsMonotone ==
    HealthRan =>
      \A i, j \in 1..Len(health_scores) :
         (InputsChanged(i, j) <= 1 /\ InputsAtMost(i, j)) =>
            RLe(health_scores[i].overall_health, health_scores[j].overall_health)

\* a company and three variants of it, each strictly above it in exactly one
\* of the three scores and strictly above it in Overall Health
C22_Witness ==
    /\ HealthRan
    /\ Len(health_scores) = 4
    /\ \A f \in {"engagement_score", "adoption_score", "growth_potential"} :
          \E j \in 2..4 :
             /\ InputsChanged(1, j) = 1
             /\ RLt(health_scores[1][f], health_scores[j][f])
             /\ RLt(health_scores[1].overall_health, health_scores[j].overall_health)

\* ---------------------------------------------------------------- C23
\* C23: no view and no report changes the loaded snapshot: every step of
\* every view, filter and report leaves data (the companies, their users,
\* instances, channels and broadcasts, the orphaned users and the metadata)
\* as it was; company_name and source are written to copies only.
C23_SnapshotIsNeverMutated == [][data' = data]_vars

\* the display fields of a record of the snapshot
DisplayFields(d) == DOMAIN d \cap {"company_name", "source"}

\* the User Analysis view shows rows that carry company_name and source,
\* those of an orphaned user among them, while no user of the snapshot
\* carries either field
C23_Witness ==
    /\ view_option = "User Analysis"
    /\ DOMAIN chart # {}
    /\ \A i \in 1..Len(chart.combined_users) :
          DisplayFields(chart.combined_users[i]) = {"company_name", "source"}
    /\ \E i \in 1..Len(chart.combined_users) :
          chart.combined_users[i].source = "orphaned"
    /\ \E i \in 1..Len(chart.combined_users) :
          chart.combined_users[i].source = "company"
    /\ \A c \in 1..Len(Companies) :
          \A j \in 1..Len(UsersOf(c)) : DisplayFields(UsersOf(c)[j]) = {}
    /\ \A j \in 1..Len(data.orphaned_users) : DisplayFields(data.orphaned_users[j]) = {}

\* ---------------------------------------------------------------- C25
\* the forecast of the Predictive Analytics view has been computed
ForecastRan == view_option = "Predictive Analytics" /\ raised = "none"

\* the synthesized month of row r lies PeriodsAgo(r) months before the
\* current one
PeriodsAgo(r) == -chart.historical_data[r].Month

\* C25: of any two synthesized months, the one further in the past is
\* divided by a strictly larger growth factor than the more recent one,
\* whatever the random terms are.
C25_FactorGrowsIntoThePast ==
    ForecastRan =>
      \A p, q \in 1..Len(chart.historical_data) :
         PeriodsAgo(p) > PeriodsAgo(q) =>
            RGt(chart.growth_factors[p], chart.growth_factors[q])

\* ---------------------------------------------------------------- C26
\* the line a + b x is the least-squares line of the series y over
\* x = 0 .. len(y) - 1: its residuals sum to zero and are orthogonal to x
IsLeastSquares(a, b, y) ==
    LET n == Len(y)
        Neg(v) == RMul(I(-1), v)
    IN  /\ RAdd(I(ISum(y)),
                Neg(RAdd(RMul(I(n), a), RMul(I(ISum([i \in 1..n |-> i - 1])), b))))
              = I(0)
        /\ RAdd(I(ISum([i \in 1..n |-> (i - 1) * y[i]])),
                Neg(RAdd(RMul(I(ISum([i \in 1..n |-> i - 1])), a),
                         RMul(I(ISum([i \in 1..n |-> (i - 1) * (i - 1)])), b))))
              = I(0)

\* the series of a metric the fit is made on
SeriesOf(metric) ==
    [r \in 1..Len(chart.df_historical) |-> chart.df_historical[r][metric]]

\* the value of the fitted line of a metric k months ahead
LineAhead(metric, k) ==
    RAdd(chart.coefficients[metric].intercept,
         RMul(chart.coefficients[metric].slope, I(Len(chart.df_historical) + k - 1)))

\* C26: for every metric, every non-negative current total and every choice
\* of the random terms, each of the 3 forecast values is >= 0: it is the value
\* of the least-squares line of the 13 months where that is not negative, and
\* 0 where it is.
C26_ForecastIsNeverNegative ==
    ForecastRan =>
      \A m \in DOMAIN chart.forecasts :
         /\ IsLeastSquares(chart.coefficients[m].intercept, chart.coefficients[m].slope,
                           SeriesOf(m))
         /\ \A k \in 1..3 :
               /\ RGe(chart.forecasts[m][k], I(0))
               /\ chart.forecast_data[k][m] >= 0
               /\ chart.forecasts[m][k] =
                      (IF RGe(LineAhead(m, k), I(0)) THEN LineAhead(m, k) ELSE I(0))

\* a forecast from a positive total with a falling line: the forecast values
\* are positive and fall from month to month
C26_Witness ==
    /\ ForecastRan
    /\ chart.df_historical[13].Users > 0
    /\ RLt(chart.coefficients["Users"].slope, I(0))
    /\ RGt(chart.forecasts["Users"][3], I(0))
    /\ RLt(chart.forecasts["Users"][3], chart.forecasts["Users"][1])
    /\ chart.forecast_data[1].Users > 0

\* ---------------------------------------------------------------- C27
\* the random term of every synthesized month is 0
PerturbationDisabled ==
    \A r \in 1..Len(chart.historical_data) :
       chart.growth_factors[r] = GrowthFactor(r - 1, 0)

\* the 13 months of the metric are all the same
IsConstantSeries(metric) ==
    \A r \in 1..Len(chart.df_historical) :
       chart.df_historical[r][metric] = chart.df_historical[1][metric]

\* C27: a metric whose 13 months are constant has a fitted slope of 0 and 3
\* forecast values equal to the constant; and with the random terms disabled
\* a metric without growth is forecast at its input: the 3 forecast values
\* equal the current total.
C27_ConstantSeriesForecastsItself ==
    ForecastRan =>
      \A m \in DOMAIN chart.forecasts :
         /\ IsConstantSeries(m) =>
               /\ chart.coefficients[m].slope = I(0)
               /\ \A k \in 1..3 : chart.forecast_data[k][m] = chart.df_historical[1][m]
         /\ PerturbationDisabled =>
               \A k \in 1..3 : chart.forecast_data[k][m] = chart.df_historical[13][m]

\* ---------------------------------------------------------------- C24
\* everything a run computes
Outputs ==
    <<health_scores, df_health, alerts, revenue_data, df_revenue, benchmark_data,
      benchmarks, chart, metrics, raised>>

PerLength(count, xs) == IF Len(xs) = 0 THEN I(0) ELSE R(count, Len(xs))

\* C28: users per channel is len(users) / len(channels) and broadcasts per
\* instance is broadcasts / len(instances) in the chart generator as in the
\* dashboard, so both report the same two ratios for a company, also when its
\* counters differ from the lengths of its collections.
C28_RatiosUseCollectionLengths ==
    /\ view_option = "create_resource_utilization_chart" =>
          \A i \in 1..Len(Companies) :
             /\ chart.users_per_channel[i] = PerLength(Len(UsersOf(i)), ChannelsOf(i))
             /\ chart.broadcasts_per_instance[i] = PerLength(BroadcastsOf(i), InstancesOf(i))
    /\ (view_option = "Benchmarking" /\ raised = "none") =>
          \A i \in 1..Len(benchmark_data) :
             benchmark_data[i].Broadcasts_Instance =
                 Round1(PerLength(BroadcastsOf(i), InstancesOf(i)))
    /\ HealthRan =>
          \A i \in 1..Len(health_scores) :
             health_scores[i].growth_potential =
                 GrowthPotential(PerLength(Len(UsersOf(i)), ChannelsOf(i)),
                                 PerLength(BroadcastsOf(i), InstancesOf(i)))

\* ---------------------------------------------------------------- C29
\* C29: with data loaded, every view the dispatcher handles is an option of
\* the view selector; the view that evaluates the alert rules is one of them.
C29_EveryBranchIsSelectable ==
    DOMAIN data # {} =>
       /\ \A branch \in DispatcherBranches : branch \in RadioOptions
       /\ "Alerts & Anomalies" \in RadioOptions

\* ---------------------------------------------------------------- C30
\* the number of health records with the given Status
WithStatus(status) ==
    Cardinality({i \in 1..Len(df_health) : df_health[i].Status = status})

\* C30: in the Health Overview the Healthy count is the number of health
\* records whose Status is Healthy, the At-Risk count the number whose Status
\* is At Risk and the Critical count the number whose Status is Critical.
C30_CountsAgreeWithTiers ==
    HealthRan =>
       /\ metrics.healthy_count = WithStatus("Healthy")
       /\ metrics.at_risk_count = WithStatus("At Risk")
       /\ metrics.critical_count = WithStatus("Critical")

====
